---- MODULE Spec2Model ----
(***************************************************************************)
(* wetterdienst: parameter registry and request construction, the NOAA    *)
(* GHCN station listing (NoaaGhcnRequest._all) and the per-station value   *)
(* collector (NoaaGhcnValues._collect_station_parameter), and the lazy     *)
(* chunked file reader (wetterdienst.util.io.read_in_chunks).              *)
(*                                                                         *)
(* Text is modelled as a sequence of one-character strings, so that case   *)
(* conversion, slicing and splitting are computed character by character.  *)
(***************************************************************************)
EXTENDS Integers, Sequences, FiniteSets, TLC

VARIABLES
  request,        \* the request descriptor (status "none" before construction)
  intended,       \* per specifier of the request: the registry definition it
                  \* was written for (0: written to match nothing)
  listing_cache,  \* metaindex_cache: the cached station listing stream
  stations,       \* what the last call of _all returned or raised
  listing_served, \* the lines of the listing document the server sent last
  now,            \* the time, in minutes
  payload_cache,  \* download_file's cache: url -> bytes and time of storing
  collected,      \* what the last _collect_station_parameter returned or raised
  output,         \* what the last values query made of the collected frame
  network,        \* the addresses requested from the servers so far
  file_object,    \* the file object handed to read_in_chunks
  reader          \* the generator read_in_chunks returned last

requestVars == <<request, intended>>

listingVars == <<listing_cache, stations, listing_served>>

collectVars == <<now, payload_cache, collected, output>>

chunkVars == <<file_object, reader>>

vars ==
  <<request, intended, listing_cache, stations, listing_served,
    now, payload_cache, collected, output, network, file_object, reader>>

(***************************************************************************)
(* Text: str.upper / str.lower                                             *)
(***************************************************************************)
LowerAlpha ==
  <<"a","b","c","d","e","f","g","h","i","j","k","l","m",
    "n","o","p","q","r","s","t","u","v","w","x","y","z">>

UpperAlpha ==
  <<"A","B","C","D","E","F","G","H","I","J","K","L","M",
    "N","O","P","Q","R","S","T","U","V","W","X","Y","Z">>

AlphaIndex(alpha, c) ==
  IF \E i \in 1..Len(alpha) : alpha[i] = c
  THEN CHOOSE i \in 1..Len(alpha) : alpha[i] = c
  ELSE 0

\* The characters other than letters that occur in the modelled texts.
OtherChars ==
  {"0","1","2","3","4","5","6","7","8","9","_",".",","," ","-","\n"}

Chars == {LowerAlpha[i] : i \in 1..26} \cup {UpperAlpha[i] : i \in 1..26} \cup OtherChars

UpperTable ==
  [c \in Chars |->
     IF AlphaIndex(LowerAlpha, c) # 0 THEN UpperAlpha[AlphaIndex(LowerAlpha, c)] ELSE c]

LowerTable ==
  [c \in Chars |->
     IF AlphaIndex(UpperAlpha, c) # 0 THEN LowerAlpha[AlphaIndex(UpperAlpha, c)] ELSE c]

char_upper(c) == UpperTable[c]

char_lower(c) == LowerTable[c]

str_upper(s) == [i \in 1..Len(s) |-> char_upper(s[i])]

str_lower_keep(s) == s

str_lower(s) == [i \in 1..Len(s) |-> char_lower(s[i])]

(***************************************************************************)
(* Parameter registries                                                    *)
(***************************************************************************)
\* The body of class NoaaGhcnParameter.DAILY: one NAME = "value" line each.
DAILY_body ==
  <<
    [name |-> <<"P","R","E","C","I","P","I","T","A","T","I","O","N","_","H","E","I","G","H","T">>,
     value |-> <<"p","r","c","p">>],  \* parameter.py:17
    [name |-> <<"S","N","O","W","_","D","E","P","T","H","_","N","E","W">>,
     value |-> <<"s","n","o","w">>],  \* parameter.py:20
    [name |-> <<"S","N","O","W","_","D","E","P","T","H">>,
     value |-> <<"s","n","w","d">>],  \* parameter.py:23
    [name |-> <<"T","E","M","P","E","R","A","T","U","R","E","_","A","I","R","_","M","A","X","_","2","0","0">>,
     value |-> <<"t","m","a","x">>],  \* parameter.py:26
    [name |-> <<"T","E","M","P","E","R","A","T","U","R","E","_","A","I","R","_","M","I","N","_","2","0","0">>,
     value |-> <<"t","m","i","n">>],  \* parameter.py:29
    [name |-> <<"C","L","O","U","D","_","C","O","V","E","R","_","T","O","T","A","L","_","M","I","D","N","I","G","H","T","_","T","O","_","M","I","D","N","I","G","H","T">>,
     value |-> <<"a","c","m","c">>],  \* parameter.py:37
    [name |-> <<"C","L","O","U","D","_","C","O","V","E","R","_","T","O","T","A","L","_","M","I","D","N","I","G","H","T","_","T","O","_","M","I","D","N","I","G","H","T","_","M","A","N","U","A","L">>,
     value |-> <<"a","c","m","h">>],  \* parameter.py:40
    [name |-> <<"C","L","O","U","D","_","C","O","V","E","R","_","T","O","T","A","L","_","S","U","N","R","I","S","E","_","T","O","_","S","U","N","S","E","T">>,
     value |-> <<"a","c","s","c">>],  \* parameter.py:43
    [name |-> <<"C","L","O","U","D","_","C","O","V","E","R","_","T","O","T","A","L","_","S","U","N","R","I","S","E","_","T","O","_","S","U","N","S","E","T","_","M","A","N","U","A","L">>,
     value |-> <<"a","c","s","h">>],  \* parameter.py:46
    [name |-> <<"W","I","N","D","_","S","P","E","E","D">>,
     value |-> <<"a","w","n","d">>],  \* parameter.py:55
    [name |-> <<"C","O","U","N","T","_","D","A","Y","S","_","M","U","L","T","I","D","A","Y","_","E","V","A","P","O","R","A","T","I","O","N">>,
     value |-> <<"d","a","e","v">>],  \* parameter.py:58
    [name |-> <<"C","O","U","N","T","_","D","A","Y","S","_","M","U","L","T","I","D","A","Y","_","P","R","E","C","I","P","I","T","A","T","I","O","N">>,
     value |-> <<"d","a","p","r">>],  \* parameter.py:61
    [name |-> <<"C","O","U","N","T","_","D","A","Y","S","_","M","U","L","T","I","D","A","Y","_","S","N","O","W","_","D","E","P","T","H","_","N","E","W">>,
     value |-> <<"d","a","s","f">>],  \* parameter.py:64
    [name |-> <<"C","O","U","N","T","_","D","A","Y","S","_","M","U","L","T","I","D","A","Y","_","T","E","M","P","E","R","A","T","U","R","E","_","A","I","R","_","M","I","N","_","2","0","0">>,
     value |-> <<"d","a","t","n">>],  \* parameter.py:67
    [name |-> <<"C","O","U","N","T","_","D","A","Y","S","_","M","U","L","T","I","D","A","Y","_","T","E","M","P","E","R","A","T","U","R","E","_","A","I","R","_","M","A","X","_","2","0","0">>,
     value |-> <<"d","a","t","x">>],  \* parameter.py:70
    [name |-> <<"C","O","U","N","T","_","D","A","Y","S","_","M","U","L","T","I","D","A","Y","_","W","I","N","D","_","M","O","V","E","M","E","N","T">>,
     value |-> <<"d","a","w","m">>],  \* parameter.py:73
    [name |-> <<"C","O","U","N","T","_","D","A","Y","S","_","M","U","L","T","I","D","A","Y","_","P","R","E","C","I","P","I","T","A","T","I","O","N","_","H","E","I","G","H","T","_","G","T","_","0">>,
     value |-> <<"d","w","p","r">>],  \* parameter.py:76
    [name |-> <<"E","V","A","P","O","R","A","T","I","O","N","_","H","E","I","G","H","T">>,
     value |-> <<"e","v","a","p">>],  \* parameter.py:80
    [name |-> <<"T","I","M","E","_","W","I","N","D","_","G","U","S","T","_","M","A","X","_","1","M","I","L","E","_","O","R","_","1","M","I","N">>,
     value |-> <<"f","m","t","m">>],  \* parameter.py:83
    [name |-> <<"F","R","O","Z","E","N","_","G","R","O","U","N","D","_","L","A","Y","E","R","_","B","A","S","E">>,
     value |-> <<"f","r","g","b">>],  \* parameter.py:86
    [name |-> <<"F","R","O","Z","E","N","_","G","R","O","U","N","D","_","L","A","Y","E","R","_","T","O","P">>,
     value |-> <<"f","r","g","t">>],  \* parameter.py:89
    [name |-> <<"F","R","O","Z","E","N","_","G","R","O","U","N","D","_","L","A","Y","E","R","_","T","H","I","C","K","N","E","S","S">>,
     value |-> <<"f","r","t","h">>],  \* parameter.py:92
    [name |-> <<"D","I","S","T","A","N","C","E","_","R","I","V","E","R","_","G","A","U","G","E","_","H","E","I","G","H","T">>,
     value |-> <<"g","a","h","t">>],  \* parameter.py:95
    [name |-> <<"E","V","A","P","O","R","A","T","I","O","N","_","H","E","I","G","H","T","_","M","U","L","T","I","D","A","Y">>,
     value |-> <<"m","d","e","v">>],  \* parameter.py:98
    [name |-> <<"P","R","E","C","I","P","I","T","A","T","I","O","N","_","H","E","I","G","H","T","_","M","U","L","T","I","D","A","Y">>,
     value |-> <<"m","d","p","r">>],  \* parameter.py:101
    [name |-> <<"S","N","O","W","_","D","E","P","T","H","_","N","E","W","_","M","U","L","T","I","D","A","Y">>,
     value |-> <<"m","d","s","f">>],  \* parameter.py:104
    [name |-> <<"T","E","M","P","E","R","A","T","U","R","E","_","A","I","R","_","M","I","N","_","2","0","0","_","M","U","L","T","I","D","A","Y">>,
     value |-> <<"m","d","t","n">>],  \* parameter.py:107
    [name |-> <<"T","E","M","P","E","R","A","T","U","R","E","_","A","I","R","_","M","A","X","_","2","0","0","_","M","U","L","T","I","D","A","Y">>,
     value |-> <<"m","d","t","x">>],  \* parameter.py:110
    [name |-> <<"W","I","N","D","_","M","O","V","E","M","E","N","T","_","M","U","L","T","I","D","A","Y">>,
     value |-> <<"m","d","w","m">>],  \* parameter.py:113
    [name |-> <<"T","E","M","P","E","R","A","T","U","R","E","_","W","A","T","E","R","_","E","V","A","P","O","R","A","T","I","O","N","_","P","A","N","_","M","I","N">>,
     value |-> <<"m","n","p","n">>],  \* parameter.py:116
    [name |-> <<"T","E","M","P","E","R","A","T","U","R","E","_","W","A","T","E","R","_","E","V","A","P","O","R","A","T","I","O","N","_","P","A","N","_","M","A","X">>,
     value |-> <<"m","x","p","n">>],  \* parameter.py:119
    [name |-> <<"T","I","M","E","_","W","I","N","D","_","G","U","S","T","_","M","A","X">>,
     value |-> <<"p","g","t","m">>],  \* parameter.py:121
    [name |-> <<"S","U","N","S","H","I","N","E","_","D","U","R","A","T","I","O","N","_","R","E","L","A","T","I","V","E">>,
     value |-> <<"p","s","u","n">>],  \* parameter.py:123
    [name |-> <<"T","E","M","P","E","R","A","T","U","R","E","_","S","O","I","L","_","M","I","N","_","U","N","K","N","O","W","N","_","0","0","5">>,
     value |-> <<"s","n","0","1">>],  \* parameter.py:166
    [name |-> <<"T","E","M","P","E","R","A","T","U","R","E","_","S","O","I","L","_","M","I","N","_","U","N","K","N","O","W","N","_","0","1","0">>,
     value |-> <<"s","n","0","2">>],  \* parameter.py:167
    [name |-> <<"T","E","M","P","E","R","A","T","U","R","E","_","S","O","I","L","_","M","I","N","_","U","N","K","N","O","W","N","_","0","2","0">>,
     value |-> <<"s","n","0","3">>],  \* parameter.py:168
    [name |-> <<"T","E","M","P","E","R","A","T","U","R","E","_","S","O","I","L","_","M","I","N","_","U","N","K","N","O","W","N","_","0","5","0">>,
     value |-> <<"s","n","0","4">>],  \* parameter.py:169
    [name |-> <<"T","E","M","P","E","R","A","T","U","R","E","_","S","O","I","L","_","M","I","N","_","U","N","K","N","O","W","N","_","1","0","0">>,
     value |-> <<"s","n","0","5">>],  \* parameter.py:170
    [name |-> <<"T","E","M","P","E","R","A","T","U","R","E","_","S","O","I","L","_","M","I","N","_","U","N","K","N","O","W","N","_","1","5","0">>,
     value |-> <<"s","n","0","6">>],  \* parameter.py:171
    [name |-> <<"T","E","M","P","E","R","A","T","U","R","E","_","S","O","I","L","_","M","I","N","_","U","N","K","N","O","W","N","_","1","8","0">>,
     value |-> <<"s","n","0","7">>],  \* parameter.py:172
    [name |-> <<"T","E","M","P","E","R","A","T","U","R","E","_","S","O","I","L","_","M","A","X","_","U","N","K","N","O","W","N","_","0","0","5">>,
     value |-> <<"s","x","0","1">>],  \* parameter.py:174
    [name |-> <<"T","E","M","P","E","R","A","T","U","R","E","_","S","O","I","L","_","M","A","X","_","U","N","K","N","O","W","N","_","0","1","0">>,
     value |-> <<"s","x","0","2">>],  \* parameter.py:175
    [name |-> <<"T","E","M","P","E","R","A","T","U","R","E","_","S","O","I","L","_","M","A","X","_","U","N","K","N","O","W","N","_","0","2","0">>,
     value |-> <<"s","x","0","3">>],  \* parameter.py:176
    [name |-> <<"T","E","M","P","E","R","A","T","U","R","E","_","S","O","I","L","_","M","A","X","_","U","N","K","N","O","W","N","_","0","5","0">>,
     value |-> <<"s","x","0","4">>],  \* parameter.py:177
    [name |-> <<"T","E","M","P","E","R","A","T","U","R","E","_","S","O","I","L","_","M","A","X","_","U","N","K","N","O","W","N","_","1","0","0">>,
     value |-> <<"s","x","0","5">>],  \* parameter.py:178
    [name |-> <<"T","E","M","P","E","R","A","T","U","R","E","_","S","O","I","L","_","M","A","X","_","U","N","K","N","O","W","N","_","1","5","0">>,
     value |-> <<"s","x","0","6">>],  \* parameter.py:179
    [name |-> <<"T","E","M","P","E","R","A","T","U","R","E","_","S","O","I","L","_","M","A","X","_","U","N","K","N","O","W","N","_","1","8","0">>,
     value |-> <<"s","x","0","7">>],  \* parameter.py:180
    [name |-> <<"T","E","M","P","E","R","A","T","U","R","E","_","S","O","I","L","_","M","I","N","_","G","R","A","S","S","_","0","0","5">>,
     value |-> <<"s","n","1","1">>],  \* parameter.py:183
    [name |-> <<"T","E","M","P","E","R","A","T","U","R","E","_","S","O","I","L","_","M","I","N","_","G","R","A","S","S","_","0","1","0">>,
     value |-> <<"s","n","1","2">>],  \* parameter.py:184
    [name |-> <<"T","E","M","P","E","R","A","T","U","R","E","_","S","O","I","L","_","M","I","N","_","G","R","A","S","S","_","0","2","0">>,
     value |-> <<"s","n","1","3">>],  \* parameter.py:185
    [name |-> <<"T","E","M","P","E","R","A","T","U","R","E","_","S","O","I","L","_","M","I","N","_","G","R","A","S","S","_","0","5","0">>,
     value |-> <<"s","n","1","4">>],  \* parameter.py:186
    [name |-> <<"T","E","M","P","E","R","A","T","U","R","E","_","S","O","I","L","_","M","I","N","_","G","R","A","S","S","_","1","0","0">>,
     value |-> <<"s","n","1","5">>],  \* parameter.py:187
    [name |-> <<"T","E","M","P","E","R","A","T","U","R","E","_","S","O","I","L","_","M","I","N","_","G","R","A","S","S","_","1","5","0">>,
     value |-> <<"s","n","1","6">>],  \* parameter.py:188
    [name |-> <<"T","E","M","P","E","R","A","T","U","R","E","_","S","O","I","L","_","M","I","N","_","G","R","A","S","S","_","1","8","0">>,
     value |-> <<"s","n","1","7">>],  \* parameter.py:189
    [name |-> <<"T","E","M","P","E","R","A","T","U","R","E","_","S","O","I","L","_","M","A","X","_","G","R","A","S","S","_","0","0","5">>,
     value |-> <<"s","x","1","1">>],  \* parameter.py:191
    [name |-> <<"T","E","M","P","E","R","A","T","U","R","E","_","S","O","I","L","_","M","A","X","_","G","R","A","S","S","_","0","1","0">>,
     value |-> <<"s","x","1","2">>],  \* parameter.py:192
    [name |-> <<"T","E","M","P","E","R","A","T","U","R","E","_","S","O","I","L","_","M","A","X","_","G","R","A","S","S","_","0","2","0">>,
     value |-> <<"s","x","1","3">>],  \* parameter.py:193
    [name |-> <<"T","E","M","P","E","R","A","T","U","R","E","_","S","O","I","L","_","M","A","X","_","G","R","A","S","S","_","0","5","0">>,
     value |-> <<"s","x","1","4">>],  \* parameter.py:194
    [name |-> <<"T","E","M","P","E","R","A","T","U","R","E","_","S","O","I","L","_","M","A","X","_","G","R","A","S","S","_","1","0","0">>,
     value |-> <<"s","x","1","5">>],  \* parameter.py:195
    [name |-> <<"T","E","M","P","E","R","A","T","U","R","E","_","S","O","I","L","_","M","A","X","_","G","R","A","S","S","_","1","5","0">>,
     value |-> <<"s","x","1","6">>],  \* parameter.py:196
    [name |-> <<"T","E","M","P","E","R","A","T","U","R","E","_","S","O","I","L","_","M","A","X","_","G","R","A","S","S","_","1","8","0">>,
     value |-> <<"s","x","1","7">>],  \* parameter.py:197
    [name |-> <<"T","E","M","P","E","R","A","T","U","R","E","_","S","O","I","L","_","M","I","N","_","F","A","L","L","O","W","_","0","0","5">>,
     value |-> <<"s","n","2","1">>],  \* parameter.py:200
    [name |-> <<"T","E","M","P","E","R","A","T","U","R","E","_","S","O","I","L","_","M","I","N","_","F","A","L","L","O","W","_","0","1","0">>,
     value |-> <<"s","n","2","2">>],  \* parameter.py:201
    [name |-> <<"T","E","M","P","E","R","A","T","U","R","E","_","S","O","I","L","_","M","I","N","_","F","A","L","L","O","W","_","0","2","0">>,
     value |-> <<"s","n","2","3">>],  \* parameter.py:202
    [name |-> <<"T","E","M","P","E","R","A","T","U","R","E","_","S","O","I","L","_","M","I","N","_","F","A","L","L","O","W","_","0","5","0">>,
     value |-> <<"s","n","2","4">>],  \* parameter.py:203
    [name |-> <<"T","E","M","P","E","R","A","T","U","R","E","_","S","O","I","L","_","M","I","N","_","F","A","L","L","O","W","_","1","0","0">>,
     value |-> <<"s","n","2","5">>],  \* parameter.py:204
    [name |-> <<"T","E","M","P","E","R","A","T","U","R","E","_","S","O","I","L","_","M","I","N","_","F","A","L","L","O","W","_","1","5","0">>,
     value |-> <<"s","n","2","6">>],  \* parameter.py:205
    [name |-> <<"T","E","M","P","E","R","A","T","U","R","E","_","S","O","I","L","_","M","I","N","_","F","A","L","L","O","W","_","1","8","0">>,
     value |-> <<"s","n","2","7">>],  \* parameter.py:206
    [name |-> <<"T","E","M","P","E","R","A","T","U","R","E","_","S","O","I","L","_","M","A","X","_","F","A","L","L","O","W","_","0","0","5">>,
     value |-> <<"s","x","2","1">>],  \* parameter.py:208
    [name |-> <<"T","E","M","P","E","R","A","T","U","R","E","_","S","O","I","L","_","M","A","X","_","F","A","L","L","O","W","_","0","1","0">>,
     value |-> <<"s","x","2","2">>],  \* parameter.py:209
    [name |-> <<"T","E","M","P","E","R","A","T","U","R","E","_","S","O","I","L","_","M","A","X","_","F","A","L","L","O","W","_","0","2","0">>,
     value |-> <<"s","x","2","3">>],  \* parameter.py:210
    [name |-> <<"T","E","M","P","E","R","A","T","U","R","E","_","S","O","I","L","_","M","A","X","_","F","A","L","L","O","W","_","0","5","0">>,
     value |-> <<"s","x","2","4">>],  \* parameter.py:211
    [name |-> <<"T","E","M","P","E","R","A","T","U","R","E","_","S","O","I","L","_","M","A","X","_","F","A","L","L","O","W","_","1","0","0">>,
     value |-> <<"s","x","2","5">>],  \* parameter.py:212
    [name |-> <<"T","E","M","P","E","R","A","T","U","R","E","_","S","O","I","L","_","M","A","X","_","F","A","L","L","O","W","_","1","5","0">>,
     value |-> <<"s","x","2","6">>],  \* parameter.py:213
    [name |-> <<"T","E","M","P","E","R","A","T","U","R","E","_","S","O","I","L","_","M","A","X","_","F","A","L","L","O","W","_","1","8","0">>,
     value |-> <<"s","x","2","7">>],  \* parameter.py:214
    [name |-> <<"T","E","M","P","E","R","A","T","U","R","E","_","S","O","I","L","_","M","I","N","_","B","A","R","E","_","G","R","O","U","N","D","_","0","0","5">>,
     value |-> <<"s","n","3","1">>],  \* parameter.py:217
    [name |-> <<"T","E","M","P","E","R","A","T","U","R","E","_","S","O","I","L","_","M","I","N","_","B","A","R","E","_","G","R","O","U","N","D","_","0","1","0">>,
     value |-> <<"s","n","3","2">>],  \* parameter.py:218
    [name |-> <<"T","E","M","P","E","R","A","T","U","R","E","_","S","O","I","L","_","M","I","N","_","B","A","R","E","_","G","R","O","U","N","D","_","0","2","0">>,
     value |-> <<"s","n","3","3">>],  \* parameter.py:219
    [name |-> <<"T","E","M","P","E","R","A","T","U","R","E","_","S","O","I","L","_","M","I","N","_","B","A","R","E","_","G","R","O","U","N","D","_","0","5","0">>,
     value |-> <<"s","n","3","4">>],  \* parameter.py:220
    [name |-> <<"T","E","M","P","E","R","A","T","U","R","E","_","S","O","I","L","_","M","I","N","_","B","A","R","E","_","G","R","O","U","N","D","_","1","0","0">>,
     value |-> <<"s","n","3","5">>],  \* parameter.py:221
    [name |-> <<"T","E","M","P","E","R","A","T","U","R","E","_","S","O","I","L","_","M","I","N","_","B","A","R","E","_","G","R","O","U","N","D","_","1","5","0">>,
     value |-> <<"s","n","3","6">>],  \* parameter.py:222
    [name |-> <<"T","E","M","P","E","R","A","T","U","R","E","_","S","O","I","L","_","M","I","N","_","B","A","R","E","_","G","R","O","U","N","D","_","1","8","0">>,
     value |-> <<"s","n","3","7">>],  \* parameter.py:223
    [name |-> <<"T","E","M","P","E","R","A","T","U","R","E","_","S","O","I","L","_","M","A","X","_","B","A","R","E","_","G","R","O","U","N","D","_","0","0","5">>,
     value |-> <<"s","x","3","1">>],  \* parameter.py:225
    [name |-> <<"T","E","M","P","E","R","A","T","U","R","E","_","S","O","I","L","_","M","A","X","_","B","A","R","E","_","G","R","O","U","N","D","_","0","1","0">>,
     value |-> <<"s","x","3","2">>],  \* parameter.py:226
    [name |-> <<"T","E","M","P","E","R","A","T","U","R","E","_","S","O","I","L","_","M","A","X","_","B","A","R","E","_","G","R","O","U","N","D","_","0","2","0">>,
     value |-> <<"s","x","3","3">>],  \* parameter.py:227
    [name |-> <<"T","E","M","P","E","R","A","T","U","R","E","_","S","O","I","L","_","M","A","X","_","B","A","R","E","_","G","R","O","U","N","D","_","0","5","0">>,
     value |-> <<"s","x","3","4">>],  \* parameter.py:228
    [name |-> <<"T","E","M","P","E","R","A","T","U","R","E","_","S","O","I","L","_","M","A","X","_","B","A","R","E","_","G","R","O","U","N","D","_","1","0","0">>,
     value |-> <<"s","x","3","5">>],  \* parameter.py:229
    [name |-> <<"T","E","M","P","E","R","A","T","U","R","E","_","S","O","I","L","_","M","A","X","_","B","A","R","E","_","G","R","O","U","N","D","_","1","5","0">>,
     value |-> <<"s","x","3","6">>],  \* parameter.py:230
    [name |-> <<"T","E","M","P","E","R","A","T","U","R","E","_","S","O","I","L","_","M","A","X","_","B","A","R","E","_","G","R","O","U","N","D","_","1","8","0">>,
     value |-> <<"s","x","3","7">>],  \* parameter.py:231
    [name |-> <<"T","E","M","P","E","R","A","T","U","R","E","_","S","O","I","L","_","M","I","N","_","B","R","O","M","E","_","G","R","A","S","S","_","0","0","5">>,
     value |-> <<"s","n","4","1">>],  \* parameter.py:234
    [name |-> <<"T","E","M","P","E","R","A","T","U","R","E","_","S","O","I","L","_","M","I","N","_","B","R","O","M","E","_","G","R","A","S","S","_","0","1","0">>,
     value |-> <<"s","n","4","2">>],  \* parameter.py:235
    [name |-> <<"T","E","M","P","E","R","A","T","U","R","E","_","S","O","I","L","_","M","I","N","_","B","R","O","M","E","_","G","R","A","S","S","_","0","2","0">>,
     value |-> <<"s","n","4","3">>],  \* parameter.py:236
    [name |-> <<"T","E","M","P","E","R","A","T","U","R","E","_","S","O","I","L","_","M","I","N","_","B","R","O","M","E","_","G","R","A","S","S","_","0","5","0">>,
     value |-> <<"s","n","4","4">>],  \* parameter.py:237
    [name |-> <<"T","E","M","P","E","R","A","T","U","R","E","_","S","O","I","L","_","M","I","N","_","B","R","O","M","E","_","G","R","A","S","S","_","1","0","0">>,
     value |-> <<"s","n","4","5">>],  \* parameter.py:238
    [name |-> <<"T","E","M","P","E","R","A","T","U","R","E","_","S","O","I","L","_","M","I","N","_","B","R","O","M","E","_","G","R","A","S","S","_","1","5","0">>,
     value |-> <<"s","n","4","6">>],  \* parameter.py:239
    [name |-> <<"T","E","M","P","E","R","A","T","U","R","E","_","S","O","I","L","_","M","I","N","_","B","R","O","M","E","_","G","R","A","S","S","_","1","8","0">>,
     value |-> <<"s","n","4","7">>],  \* parameter.py:240
    [name |-> <<"T","E","M","P","E","R","A","T","U","R","E","_","S","O","I","L","_","M","A","X","_","B","R","O","M","E","_","G","R","A","S","S","_","0","0","5">>,
     value |-> <<"s","x","4","1">>],  \* parameter.py:242
    [name |-> <<"T","E","M","P","E","R","A","T","U","R","E","_","S","O","I","L","_","M","A","X","_","B","R","O","M","E","_","G","R","A","S","S","_","0","1","0">>,
     value |-> <<"s","x","4","2">>],  \* parameter.py:243
    [name |-> <<"T","E","M","P","E","R","A","T","U","R","E","_","S","O","I","L","_","M","A","X","_","B","R","O","M","E","_","G","R","A","S","S","_","0","2","0">>,
     value |-> <<"s","x","4","3">>],  \* parameter.py:244
    [name |-> <<"T","E","M","P","E","R","A","T","U","R","E","_","S","O","I","L","_","M","A","X","_","B","R","O","M","E","_","G","R","A","S","S","_","0","5","0">>,
     value |-> <<"s","x","4","4">>],  \* parameter.py:245
    [name |-> <<"T","E","M","P","E","R","A","T","U","R","E","_","S","O","I","L","_","M","A","X","_","B","R","O","M","E","_","G","R","A","S","S","_","1","0","0">>,
     value |-> <<"s","x","4","5">>],  \* parameter.py:246
    [name |-> <<"T","E","M","P","E","R","A","T","U","R","E","_","S","O","I","L","_","M","A","X","_","B","R","O","M","E","_","G","R","A","S","S","_","1","5","0">>,
     value |-> <<"s","x","4","6">>],  \* parameter.py:247
    [name |-> <<"T","E","M","P","E","R","A","T","U","R","E","_","S","O","I","L","_","M","A","X","_","B","R","O","M","E","_","G","R","A","S","S","_","1","8","0">>,
     value |-> <<"s","x","4","7">>],  \* parameter.py:248
    [name |-> <<"T","E","M","P","E","R","A","T","U","R","E","_","S","O","I","L","_","M","I","N","_","S","O","D","_","0","0","5">>,
     value |-> <<"s","n","5","1">>],  \* parameter.py:251
    [name |-> <<"T","E","M","P","E","R","A","T","U","R","E","_","S","O","I","L","_","M","I","N","_","S","O","D","_","0","1","0">>,
     value |-> <<"s","n","5","2">>],  \* parameter.py:252
    [name |-> <<"T","E","M","P","E","R","A","T","U","R","E","_","S","O","I","L","_","M","I","N","_","S","O","D","_","0","2","0">>,
     value |-> <<"s","n","5","3">>],  \* parameter.py:253
    [name |-> <<"T","E","M","P","E","R","A","T","U","R","E","_","S","O","I","L","_","M","I","N","_","S","O","D","_","0","5","0">>,
     value |-> <<"s","n","5","4">>],  \* parameter.py:254
    [name |-> <<"T","E","M","P","E","R","A","T","U","R","E","_","S","O","I","L","_","M","I","N","_","S","O","D","_","1","0","0">>,
     value |-> <<"s","n","5","5">>],  \* parameter.py:255
    [name |-> <<"T","E","M","P","E","R","A","T","U","R","E","_","S","O","I","L","_","M","I","N","_","S","O","D","_","1","5","0">>,
     value |-> <<"s","n","5","6">>],  \* parameter.py:256
    [name |-> <<"T","E","M","P","E","R","A","T","U","R","E","_","S","O","I","L","_","M","I","N","_","S","O","D","_","1","8","0">>,
     value |-> <<"s","n","5","7">>],  \* parameter.py:257
    [name |-> <<"T","E","M","P","E","R","A","T","U","R","E","_","S","O","I","L","_","M","A","X","_","S","O","D","_","0","0","5">>,
     value |-> <<"s","x","5","1">>],  \* parameter.py:259
    [name |-> <<"T","E","M","P","E","R","A","T","U","R","E","_","S","O","I","L","_","M","A","X","_","S","O","D","_","0","1","0">>,
     value |-> <<"s","x","5","2">>],  \* parameter.py:260
    [name |-> <<"T","E","M","P","E","R","A","T","U","R","E","_","S","O","I","L","_","M","A","X","_","S","O","D","_","0","2","0">>,
     value |-> <<"s","x","5","3">>],  \* parameter.py:261
    [name |-> <<"T","E","M","P","E","R","A","T","U","R","E","_","S","O","I","L","_","M","A","X","_","S","O","D","_","0","5","0">>,
     value |-> <<"s","x","5","4">>],  \* parameter.py:262
    [name |-> <<"T","E","M","P","E","R","A","T","U","R","E","_","S","O","I","L","_","M","A","X","_","S","O","D","_","1","0","0">>,
     value |-> <<"s","x","5","5">>],  \* parameter.py:263
    [name |-> <<"T","E","M","P","E","R","A","T","U","R","E","_","S","O","I","L","_","M","A","X","_","S","O","D","_","1","5","0">>,
     value |-> <<"s","x","5","6">>],  \* parameter.py:264
    [name |-> <<"T","E","M","P","E","R","A","T","U","R","E","_","S","O","I","L","_","M","A","X","_","S","O","D","_","1","8","0">>,
     value |-> <<"s","x","5","7">>],  \* parameter.py:265
    [name |-> <<"T","E","M","P","E","R","A","T","U","R","E","_","S","O","I","L","_","M","I","N","_","S","T","R","A","W","_","M","U","L","C","H","_","0","0","5">>,
     value |-> <<"s","n","6","1">>],  \* parameter.py:268
    [name |-> <<"T","E","M","P","E","R","A","T","U","R","E","_","S","O","I","L","_","M","I","N","_","S","T","R","A","W","_","M","U","L","C","H","_","0","1","0">>,
     value |-> <<"s","n","6","2">>],  \* parameter.py:269
    [name |-> <<"T","E","M","P","E","R","A","T","U","R","E","_","S","O","I","L","_","M","I","N","_","S","T","R","A","W","_","M","U","L","C","H","_","0","2","0">>,
     value |-> <<"s","n","6","3">>],  \* parameter.py:270
    [name |-> <<"T","E","M","P","E","R","A","T","U","R","E","_","S","O","I","L","_","M","I","N","_","S","T","R","A","W","_","M","U","L","C","H","_","0","5","0">>,
     value |-> <<"s","n","6","4">>],  \* parameter.py:271
    [name |-> <<"T","E","M","P","E","R","A","T","U","R","E","_","S","O","I","L","_","M","I","N","_","S","T","R","A","W","_","M","U","L","C","H","_","1","0","0">>,
     value |-> <<"s","n","6","5">>],  \* parameter.py:272
    [name |-> <<"T","E","M","P","E","R","A","T","U","R","E","_","S","O","I","L","_","M","I","N","_","S","T","R","A","W","_","M","U","L","C","H","_","1","5","0">>,
     value |-> <<"s","n","6","6">>],  \* parameter.py:273
    [name |-> <<"T","E","M","P","E","R","A","T","U","R","E","_","S","O","I","L","_","M","I","N","_","S","T","R","A","W","_","M","U","L","C","H","_","1","8","0">>,
     value |-> <<"s","n","6","7">>],  \* parameter.py:274
    [name |-> <<"T","E","M","P","E","R","A","T","U","R","E","_","S","O","I","L","_","M","A","X","_","S","T","R","A","W","_","M","U","L","C","H","_","0","0","5">>,
     value |-> <<"s","x","6","1">>],  \* parameter.py:276
    [name |-> <<"T","E","M","P","E","R","A","T","U","R","E","_","S","O","I","L","_","M","A","X","_","S","T","R","A","W","_","M","U","L","C","H","_","0","1","0">>,
     value |-> <<"s","x","6","2">>],  \* parameter.py:277
    [name |-> <<"T","E","M","P","E","R","A","T","U","R","E","_","S","O","I","L","_","M","A","X","_","S","T","R","A","W","_","M","U","L","C","H","_","0","2","0">>,
     value |-> <<"s","x","6","3">>],  \* parameter.py:278
    [name |-> <<"T","E","M","P","E","R","A","T","U","R","E","_","S","O","I","L","_","M","A","X","_","S","T","R","A","W","_","M","U","L","C","H","_","0","5","0">>,
     value |-> <<"s","x","6","4">>],  \* parameter.py:279
    [name |-> <<"T","E","M","P","E","R","A","T","U","R","E","_","S","O","I","L","_","M","A","X","_","S","T","R","A","W","_","M","U","L","C","H","_","1","0","0">>,
     value |-> <<"s","x","6","5">>],  \* parameter.py:280
    [name |-> <<"T","E","M","P","E","R","A","T","U","R","E","_","S","O","I","L","_","M","A","X","_","S","T","R","A","W","_","M","U","L","C","H","_","1","5","0">>,
     value |-> <<"s","x","6","6">>],  \* parameter.py:281
    [name |-> <<"T","E","M","P","E","R","A","T","U","R","E","_","S","O","I","L","_","M","A","X","_","S","T","R","A","W","_","M","U","L","C","H","_","1","8","0">>,
     value |-> <<"s","x","6","7">>],  \* parameter.py:282
    [name |-> <<"T","E","M","P","E","R","A","T","U","R","E","_","S","O","I","L","_","M","I","N","_","G","R","A","S","S","_","M","U","C","K","_","0","0","5">>,
     value |-> <<"s","n","7","1">>],  \* parameter.py:285
    [name |-> <<"T","E","M","P","E","R","A","T","U","R","E","_","S","O","I","L","_","M","I","N","_","G","R","A","S","S","_","M","U","C","K","_","0","1","0">>,
     value |-> <<"s","n","7","2">>],  \* parameter.py:286
    [name |-> <<"T","E","M","P","E","R","A","T","U","R","E","_","S","O","I","L","_","M","I","N","_","G","R","A","S","S","_","M","U","C","K","_","0","2","0">>,
     value |-> <<"s","n","7","3">>],  \* parameter.py:287
    [name |-> <<"T","E","M","P","E","R","A","T","U","R","E","_","S","O","I","L","_","M","I","N","_","G","R","A","S","S","_","M","U","C","K","_","0","5","0">>,
     value |-> <<"s","n","7","4">>],  \* parameter.py:288
    [name |-> <<"T","E","M","P","E","R","A","T","U","R","E","_","S","O","I","L","_","M","I","N","_","G","R","A","S","S","_","M","U","C","K","_","1","0","0">>,
     value |-> <<"s","n","7","5">>],  \* parameter.py:289
    [name |-> <<"T","E","M","P","E","R","A","T","U","R","E","_","S","O","I","L","_","M","I","N","_","G","R","A","S","S","_","M","U","C","K","_","1","5","0">>,
     value |-> <<"s","n","7","6">>],  \* parameter.py:290
    [name |-> <<"T","E","M","P","E","R","A","T","U","R","E","_","S","O","I","L","_","M","I","N","_","G","R","A","S","S","_","M","U","C","K","_","1","8","0">>,
     value |-> <<"s","n","7","7">>],  \* parameter.py:291
    [name |-> <<"T","E","M","P","E","R","A","T","U","R","E","_","S","O","I","L","_","M","A","X","_","G","R","A","S","S","_","M","U","C","K","_","0","0","5">>,
     value |-> <<"s","x","7","1">>],  \* parameter.py:293
    [name |-> <<"T","E","M","P","E","R","A","T","U","R","E","_","S","O","I","L","_","M","A","X","_","G","R","A","S","S","_","M","U","C","K","_","0","1","0">>,
     value |-> <<"s","x","7","2">>],  \* parameter.py:294
    [name |-> <<"T","E","M","P","E","R","A","T","U","R","E","_","S","O","I","L","_","M","A","X","_","G","R","A","S","S","_","M","U","C","K","_","0","2","0">>,
     value |-> <<"s","x","7","3">>],  \* parameter.py:295
    [name |-> <<"T","E","M","P","E","R","A","T","U","R","E","_","S","O","I","L","_","M","A","X","_","G","R","A","S","S","_","M","U","C","K","_","0","5","0">>,
     value |-> <<"s","x","7","4">>],  \* parameter.py:296
    [name |-> <<"T","E","M","P","E","R","A","T","U","R","E","_","S","O","I","L","_","M","A","X","_","G","R","A","S","S","_","M","U","C","K","_","1","0","0">>,
     value |-> <<"s","x","7","5">>],  \* parameter.py:297
    [name |-> <<"T","E","M","P","E","R","A","T","U","R","E","_","S","O","I","L","_","M","A","X","_","G","R","A","S","S","_","M","U","C","K","_","1","5","0">>,
     value |-> <<"s","x","7","6">>],  \* parameter.py:298
    [name |-> <<"T","E","M","P","E","R","A","T","U","R","E","_","S","O","I","L","_","M","A","X","_","G","R","A","S","S","_","M","U","C","K","_","1","8","0">>,
     value |-> <<"s","x","7","7">>],  \* parameter.py:299
    [name |-> <<"T","E","M","P","E","R","A","T","U","R","E","_","S","O","I","L","_","M","I","N","_","B","A","R","E","_","M","U","C","K","_","0","0","5">>,
     value |-> <<"s","n","8","1">>],  \* parameter.py:302
    [name |-> <<"T","E","M","P","E","R","A","T","U","R","E","_","S","O","I","L","_","M","I","N","_","B","A","R","E","_","M","U","C","K","_","0","1","0">>,
     value |-> <<"s","n","8","2">>],  \* parameter.py:303
    [name |-> <<"T","E","M","P","E","R","A","T","U","R","E","_","S","O","I","L","_","M","I","N","_","B","A","R","E","_","M","U","C","K","_","0","2","0">>,
     value |-> <<"s","n","8","3">>],  \* parameter.py:304
    [name |-> <<"T","E","M","P","E","R","A","T","U","R","E","_","S","O","I","L","_","M","I","N","_","B","A","R","E","_","M","U","C","K","_","0","5","0">>,
     value |-> <<"s","n","8","4">>],  \* parameter.py:305
    [name |-> <<"T","E","M","P","E","R","A","T","U","R","E","_","S","O","I","L","_","M","I","N","_","B","A","R","E","_","M","U","C","K","_","1","0","0">>,
     value |-> <<"s","n","8","5">>],  \* parameter.py:306
    [name |-> <<"T","E","M","P","E","R","A","T","U","R","E","_","S","O","I","L","_","M","I","N","_","B","A","R","E","_","M","U","C","K","_","1","5","0">>,
     value |-> <<"s","n","8","6">>],  \* parameter.py:307
    [name |-> <<"T","E","M","P","E","R","A","T","U","R","E","_","S","O","I","L","_","M","I","N","_","B","A","R","E","_","M","U","C","K","_","1","8","0">>,
     value |-> <<"s","n","8","7">>],  \* parameter.py:308
    [name |-> <<"T","E","M","P","E","R","A","T","U","R","E","_","S","O","I","L","_","M","A","X","_","B","A","R","E","_","M","U","C","K","_","0","0","5">>,
     value |-> <<"s","x","8","1">>],  \* parameter.py:310
    [name |-> <<"T","E","M","P","E","R","A","T","U","R","E","_","S","O","I","L","_","M","A","X","_","B","A","R","E","_","M","U","C","K","_","0","1","0">>,
     value |-> <<"s","x","8","2">>],  \* parameter.py:311
    [name |-> <<"T","E","M","P","E","R","A","T","U","R","E","_","S","O","I","L","_","M","A","X","_","B","A","R","E","_","M","U","C","K","_","0","2","0">>,
     value |-> <<"s","x","8","3">>],  \* parameter.py:312
    [name |-> <<"T","E","M","P","E","R","A","T","U","R","E","_","S","O","I","L","_","M","A","X","_","B","A","R","E","_","M","U","C","K","_","0","5","0">>,
     value |-> <<"s","x","8","4">>],  \* parameter.py:313
    [name |-> <<"T","E","M","P","E","R","A","T","U","R","E","_","S","O","I","L","_","M","A","X","_","B","A","R","E","_","M","U","C","K","_","1","0","0">>,
     value |-> <<"s","x","8","5">>],  \* parameter.py:314
    [name |-> <<"T","E","M","P","E","R","A","T","U","R","E","_","S","O","I","L","_","M","A","X","_","B","A","R","E","_","M","U","C","K","_","1","5","0">>,
     value |-> <<"s","x","8","6">>],  \* parameter.py:315
    [name |-> <<"T","E","M","P","E","R","A","T","U","R","E","_","S","O","I","L","_","M","A","X","_","B","A","R","E","_","M","U","C","K","_","1","8","0">>,
     value |-> <<"s","x","8","7">>],  \* parameter.py:316
    [name |-> <<"I","C","E","_","O","N","_","W","A","T","E","R","_","T","H","I","C","K","N","E","S","S">>,
     value |-> <<"t","h","i","c">>],  \* parameter.py:319
    [name |-> <<"T","E","M","P","E","R","A","T","U","R","E","_","A","I","R","_","2","0","0">>,
     value |-> <<"t","o","b","s">>],  \* parameter.py:322
    [name |-> <<"S","U","N","S","H","I","N","E","_","D","U","R","A","T","I","O","N">>,
     value |-> <<"t","s","u","n">>],  \* parameter.py:324
    [name |-> <<"W","I","N","D","_","D","I","R","E","C","T","I","O","N","_","G","U","S","T","_","M","A","X","_","5","S","E","C">>,
     value |-> <<"w","d","f","5">>],  \* parameter.py:327
    [name |-> <<"W","I","N","D","_","D","I","R","E","C","T","I","O","N","_","G","U","S","T","_","M","A","X","_","1","M","I","N">>,
     value |-> <<"w","d","f","1">>],  \* parameter.py:330
    [name |-> <<"W","I","N","D","_","D","I","R","E","C","T","I","O","N","_","G","U","S","T","_","M","A","X","_","2","M","I","N">>,
     value |-> <<"w","d","f","2">>],  \* parameter.py:332
    [name |-> <<"W","I","N","D","_","D","I","R","E","C","T","I","O","N","_","G","U","S","T","_","M","A","X">>,
     value |-> <<"w","d","f","g">>],  \* parameter.py:334
    [name |-> <<"W","I","N","D","_","D","I","R","E","C","T","I","O","N","_","G","U","S","T","_","M","A","X","_","I","N","S","T","A","N","T">>,
     value |-> <<"w","d","f","i">>],  \* parameter.py:336
    [name |-> <<"W","I","N","D","_","D","I","R","E","C","T","I","O","N","_","G","U","S","T","_","M","A","X","_","1","M","I","L","E">>,
     value |-> <<"w","d","f","m">>],  \* parameter.py:338
    [name |-> <<"W","I","N","D","_","M","O","V","E","M","E","N","T","_","2","4","H","O","U","R">>,
     value |-> <<"w","d","m","v">>],  \* parameter.py:341
    [name |-> <<"W","A","T","E","R","_","E","Q","U","I","V","A","L","E","N","T","_","S","N","O","W","_","D","E","P","T","H">>,
     value |-> <<"w","e","s","d">>],  \* parameter.py:344
    [name |-> <<"W","A","T","E","R","_","E","Q","U","I","V","A","L","E","N","T","_","S","N","O","W","_","D","E","P","T","H","_","N","E","W">>,
     value |-> <<"w","e","s","f">>],  \* parameter.py:346
    [name |-> <<"W","I","N","D","_","G","U","S","T","_","M","A","X","_","5","S","E","C">>,
     value |-> <<"w","s","f","5">>],  \* parameter.py:349
    [name |-> <<"W","I","N","D","_","G","U","S","T","_","M","A","X","_","1","M","I","N">>,
     value |-> <<"w","s","f","1">>],  \* parameter.py:352
    [name |-> <<"W","I","N","D","_","G","U","S","T","_","M","A","X","_","2","M","I","N">>,
     value |-> <<"w","s","f","2">>],  \* parameter.py:355
    [name |-> <<"W","I","N","D","_","G","U","S","T","_","M","A","X">>,
     value |-> <<"w","s","f","g">>],  \* parameter.py:358
    [name |-> <<"W","I","N","D","_","G","U","S","T","_","M","A","X","_","I","N","S","T","A","N","T">>,
     value |-> <<"w","s","f","i">>],  \* parameter.py:361
    [name |-> <<"W","I","N","D","_","G","U","S","T","_","M","A","X","_","1","M","I","L","E">>,
     value |-> <<"w","s","f","m">>],  \* parameter.py:364
    [name |-> <<"W","E","A","T","H","E","R","_","T","Y","P","E","_","F","O","G">>,
     value |-> <<"w","t","0","1">>],  \* parameter.py:390
    [name |-> <<"W","E","A","T","H","E","R","_","T","Y","P","E","_","H","E","A","V","Y","_","F","O","G">>,
     value |-> <<"w","t","0","2">>],  \* parameter.py:391
    [name |-> <<"W","E","A","T","H","E","R","_","T","Y","P","E","_","T","H","U","N","D","E","R">>,
     value |-> <<"w","t","0","3">>],  \* parameter.py:392
    [name |-> <<"W","E","A","T","H","E","R","_","T","Y","P","E","_","I","C","E","_","S","L","E","E","T","_","S","N","O","W","_","H","A","I","L">>,
     value |-> <<"w","t","0","4">>],  \* parameter.py:393
    [name |-> <<"W","E","A","T","H","E","R","_","T","Y","P","E","_","H","A","I","L">>,
     value |-> <<"w","t","0","5">>],  \* parameter.py:394
    [name |-> <<"W","E","A","T","H","E","R","_","T","Y","P","E","_","G","L","A","Z","E","_","R","I","M","E">>,
     value |-> <<"w","t","0","6">>],  \* parameter.py:395
    [name |-> <<"W","E","A","T","H","E","R","_","T","Y","P","E","_","D","U","S","T","_","A","S","H","_","S","A","N","D">>,
     value |-> <<"w","t","0","7">>],  \* parameter.py:396
    [name |-> <<"W","E","A","T","H","E","R","_","T","Y","P","E","_","S","M","O","K","E","_","H","A","Z","E">>,
     value |-> <<"w","t","0","8">>],  \* parameter.py:397
    [name |-> <<"W","E","A","T","H","E","R","_","T","Y","P","E","_","B","L","O","W","I","N","G","_","D","R","I","F","T","I","N","G","_","S","N","O","W">>,
     value |-> <<"w","t","0","9">>],  \* parameter.py:398
    [name |-> <<"W","E","A","T","H","E","R","_","T","Y","P","E","_","T","O","R","N","A","D","O","_","W","A","T","E","R","S","P","O","U","T">>,
     value |-> <<"w","t","1","0">>],  \* parameter.py:399
    [name |-> <<"W","E","A","T","H","E","R","_","T","Y","P","E","_","H","I","G","H","_","D","A","M","A","G","I","N","G","_","W","I","N","D","S">>,
     value |-> <<"w","t","1","1">>],  \* parameter.py:400
    [name |-> <<"W","E","A","T","H","E","R","_","T","Y","P","E","_","B","L","O","W","I","N","G","_","S","P","R","A","Y">>,
     value |-> <<"w","t","1","2">>],  \* parameter.py:401
    [name |-> <<"W","E","A","T","H","E","R","_","T","Y","P","E","_","M","I","S","T">>,
     value |-> <<"w","t","1","3">>],  \* parameter.py:402
    [name |-> <<"W","E","A","T","H","E","R","_","T","Y","P","E","_","D","R","I","Z","Z","L","E">>,
     value |-> <<"w","t","1","4">>],  \* parameter.py:403
    [name |-> <<"W","E","A","T","H","E","R","_","T","Y","P","E","_","F","R","E","E","Z","I","N","G","_","D","R","I","Z","Z","L","E">>,
     value |-> <<"w","t","1","5">>],  \* parameter.py:404
    [name |-> <<"W","E","A","T","H","E","R","_","T","Y","P","E","_","R","A","I","N">>,
     value |-> <<"w","t","1","6">>],  \* parameter.py:405
    [name |-> <<"W","E","A","T","H","E","R","_","T","Y","P","E","_","F","R","E","E","Z","I","N","G","_","R","A","I","N">>,
     value |-> <<"w","t","1","7">>],  \* parameter.py:406
    [name |-> <<"W","E","A","T","H","E","R","_","T","Y","P","E","_","S","N","O","W","_","P","E","L","L","E","T","S","_","S","N","O","W","_","G","R","A","I","N","S","_","I","C","E","_","C","R","Y","S","T","A","L","S">>,
     value |-> <<"w","t","1","8">>],  \* parameter.py:407
    [name |-> <<"W","E","A","T","H","E","R","_","T","Y","P","E","_","P","R","E","C","I","P","I","T","A","T","I","O","N","_","U","N","K","N","O","W","N","_","S","O","U","R","C","E">>,
     value |-> <<"w","t","1","9">>],  \* parameter.py:408
    [name |-> <<"W","E","A","T","H","E","R","_","T","Y","P","E","_","G","R","O","U","N","D","_","F","O","G">>,
     value |-> <<"w","t","2","1">>],  \* parameter.py:409
    [name |-> <<"W","E","A","T","H","E","R","_","T","Y","P","E","_","I","C","E","_","F","O","G","_","F","R","E","E","Z","I","N","G","_","F","O","G">>,
     value |-> <<"w","t","2","2">>],  \* parameter.py:410
    [name |-> <<"W","E","A","T","H","E","R","_","T","Y","P","E","_","V","I","C","I","N","I","T","Y","_","F","O","G","_","A","N","Y">>,
     value |-> <<"w","v","0","1">>],  \* parameter.py:420
    [name |-> <<"W","E","A","T","H","E","R","_","T","Y","P","E","_","V","I","C","I","N","I","T","Y","_","T","H","U","N","D","E","R">>,
     value |-> <<"w","v","0","3">>],  \* parameter.py:421
    [name |-> <<"W","E","A","T","H","E","R","_","T","Y","P","E","_","V","I","C","I","N","I","T","Y","_","D","U","S","T","_","A","S","H","_","S","A","N","D">>,
     value |-> <<"w","v","0","7">>],  \* parameter.py:422
    [name |-> <<"W","E","A","T","H","E","R","_","T","Y","P","E","_","V","I","C","I","N","I","T","Y","_","S","N","O","W","_","I","C","E","_","C","R","Y","S","T","A","L","S">>,
     value |-> <<"w","v","1","8">>],  \* parameter.py:423
    [name |-> <<"W","E","A","T","H","E","R","_","T","Y","P","E","_","V","I","C","I","N","I","T","Y","_","R","A","I","N","_","S","N","O","W","_","S","H","O","W","E","R">>,
     value |-> <<"w","v","2","0">>]   \* parameter.py:424
  >>

\* DAILY_body with the second definition given the first one's value, as a
\* copy-and-paste slip would leave it.
DAILY_body_duplicate ==
  [i \in 1..Len(DAILY_body) |->
     IF i = 2 THEN [name |-> DAILY_body[2].name, value |-> DAILY_body[1].value]
     ELSE DAILY_body[i]]

\* enum.Enum: the member the i-th name of a class body is bound to. A name
\* whose value was already defined is an alias of the first member with it.
EnumMember(body, i) ==
  body[CHOOSE j \in 1..i : /\ body[j].value = body[i].value
                           /\ \A k \in 1..(j-1) : body[k].value # body[i].value]

EnumClass(path, body) ==
  [i \in 1..Len(body) |->
     [enum |-> path, name |-> EnumMember(body, i).name,
      value |-> EnumMember(body, i).value]]

DAILY_aliased == EnumClass("NoaaGhcnParameter.DAILY", DAILY_body_duplicate)

DAILY == EnumClass("NoaaGhcnParameter.DAILY", DAILY_body)

\* DWD daily climate summary, the five parameters of the request tests.
DwdDaily_body ==
  <<
    [name |-> <<"T","E","M","P","E","R","A","T","U","R","E","_","A","I","R","_","M","E","A","N","_","2","0","0">>,
     value |-> <<"t","m","k">>],
    [name |-> <<"T","E","M","P","E","R","A","T","U","R","E","_","A","I","R","_","M","A","X","_","2","0","0">>,
     value |-> <<"t","x","k">>],
    [name |-> <<"T","E","M","P","E","R","A","T","U","R","E","_","A","I","R","_","M","I","N","_","2","0","0">>,
     value |-> <<"t","n","k">>],
    [name |-> <<"P","R","E","C","I","P","I","T","A","T","I","O","N","_","H","E","I","G","H","T">>,
     value |-> <<"r","s","k">>],
    [name |-> <<"P","R","E","C","I","P","I","T","A","T","I","O","N","_","F","O","R","M">>,
     value |-> <<"r","s","k","f">>]
  >>

DwdObservationParameter_DAILY == EnumClass("DwdObservationParameter.DAILY", DwdDaily_body)

DwdObservationDatasetTree_DAILY_CLIMATE_SUMMARY ==
  EnumClass("DwdObservationDatasetTree.DAILY.CLIMATE_SUMMARY", DwdDaily_body)

\* parameters_reference of the request tests
parameters_reference ==
  [i \in 1..Len(DwdDaily_body) |->
     <<DwdObservationDatasetTree_DAILY_CLIMATE_SUMMARY[i],
       "DwdObservationDataset.CLIMATE_SUMMARY">>]

(***************************************************************************)
(* Request construction                                                    *)
(***************************************************************************)
\* Number of leading registry definitions the parameter lists are drawn from.
SampleSize == 2

\* Longest parameter list a request is built with.
MaxParams == 2

\* The registry keys as the lookup compares them: upper-cased.
UpperKeys(base) ==
  [i \in 1..Len(base) |->
     [name |-> str_upper(base[i].name), value |-> str_upper(base[i].value)]]

\* class NoaaGhcnRequest: the class attributes request construction reads.
NoaaGhcnRequest ==
  [parameter_base |-> DAILY,
   dataset_tree   |-> DAILY,
   dataset        |-> "NoaaGhcnDatasetBase.DAILY",
   keys           |-> UpperKeys(DAILY)]

\* DwdObservationRequest as the request tests use it (resolution DAILY).
DwdObservationRequest ==
  [parameter_base |-> DwdObservationParameter_DAILY,
   dataset_tree   |-> DwdObservationDatasetTree_DAILY_CLIMATE_SUMMARY,
   dataset        |-> "DwdObservationDataset.CLIMATE_SUMMARY",
   keys           |-> UpperKeys(DwdObservationParameter_DAILY)]

ProviderNames == {"noaa", "dwd"}

Provider(p) == IF p = "noaa" THEN NoaaGhcnRequest ELSE DwdObservationRequest

MinOf(S) == CHOOSE x \in S : \A y \in S : x <= y

\* Lookup without case normalisation: the text must equal a stored name or
\* a stored value as written.
parse_enumeration_exact(cfg, s) ==
  LET hits == {i \in 1..Len(cfg.parameter_base) :
                 \/ cfg.parameter_base[i].name = s
                 \/ cfg.parameter_base[i].value = s}
  IN  IF hits = {} THEN 0 ELSE MinOf(hits)

\* Lookup that accepts the first entry whose code starts with the text.
parse_enumeration_prefix(cfg, s) ==
  LET u    == str_upper(s)
      hits == {i \in 1..Len(cfg.keys) :
                 \/ cfg.keys[i].name = u
                 \/ /\ Len(u) <= Len(cfg.keys[i].value)
                    /\ SubSeq(cfg.keys[i].value, 1, Len(u)) = u}
  IN  IF hits = {} THEN 0 ELSE MinOf(hits)

\* Parameter Registry lookup: the index in parameter_base of the entry whose
\* name or agency code equals the text after upper-casing both; 0 if none.
parse_enumeration(cfg, s) ==
  LET u    == str_upper(s)
      hits == {i \in 1..Len(cfg.keys) :
                 cfg.keys[i].name = u \/ cfg.keys[i].value = u}
  IN  IF hits = {} THEN 0 ELSE MinOf(hits)

\* A specifier is a string, or an enum constant of parameter_base (named by
\* its member name).
parse_specifier(cfg, spec) ==
  IF spec.kind = "enum"
  THEN LET hits == {i \in 1..Len(cfg.parameter_base) :
                      cfg.parameter_base[i].name = spec.text}
       IN  IF hits = {} THEN 0 ELSE MinOf(hits)
  ELSE parse_enumeration(cfg, spec.text)

\* start_date=None, end_date=None: no date given. Dates are numbered days.
None == 0

NoRequest ==
  [status |-> "none", provider |-> "", parameter_input |-> <<>>,
   parameter |-> <<>>, start_date |-> None, end_date |-> None]

\* Request construction that leaves out the specifiers it cannot resolve.
ScalarRequestCore_init_skipping(p, parameter) ==
  LET cfg == Provider(p)
      idx == [k \in 1..Len(parameter) |-> parse_specifier(cfg, parameter[k])]
      ok  == SelectSeq(idx, LAMBDA i : i # 0)
  IN  [status |-> "ok", provider |-> p, parameter_input |-> parameter,
       parameter |-> [k \in 1..Len(ok) |-> <<cfg.dataset_tree[ok[k]], cfg.dataset>>],
       start_date |-> None, end_date |-> None]

\* Request construction: every specifier is resolved, in input order, to a
\* (dataset-tree parameter, dataset) pair; an unresolvable one fails it.
ScalarRequestCore_init(p, parameter) ==
  LET cfg == Provider(p)
      idx == [k \in 1..Len(parameter) |-> parse_specifier(cfg, parameter[k])]
  IN  IF \E k \in 1..Len(parameter) : idx[k] = 0
      THEN [status |-> "LookupError", provider |-> p,
            parameter_input |-> parameter, parameter |-> <<>>,
            start_date |-> None, end_date |-> None]
      ELSE [status |-> "ok", provider |-> p, parameter_input |-> parameter,
            parameter |-> [k \in 1..Len(parameter) |->
                             <<cfg.dataset_tree[idx[k]], cfg.dataset>>],
            start_date |-> None, end_date |-> None]

\* Request construction with a date range: an inverted range (start after
\* end) fails the construction; nothing is fetched.
ScalarRequestCore_init_dates(p, parameter, start_date, end_date) ==
  IF start_date # None /\ end_date # None /\ start_date > end_date
  THEN [status |-> "ValidationError", provider |-> p,
        parameter_input |-> parameter, parameter |-> <<>>,
        start_date |-> start_date, end_date |-> end_date]
  ELSE [ScalarRequestCore_init(p, parameter) EXCEPT
          !.start_date = start_date, !.end_date = end_date]

\* A constructor that passes no dates on.
NoaaGhcnRequest_init_undated(parameter, start_date, end_date) ==
  [ScalarRequestCore_init_dates("noaa", parameter, None, None) EXCEPT
     !.start_date = start_date, !.end_date = end_date]

\* NoaaGhcnRequest.__init__(parameter, start_date, end_date): the dates are
\* passed on to ScalarRequestCore.__init__.
NoaaGhcnRequest_init_dates(parameter, start_date, end_date) ==
  ScalarRequestCore_init_dates("noaa", parameter, start_date, end_date)

\* NoaaGhcnRequest.__init__: resolution and period are fixed.
NoaaGhcnRequest_init(parameter) == ScalarRequestCore_init("noaa", parameter)

Construct(p, parameter) ==
  IF p = "noaa" THEN NoaaGhcnRequest_init(parameter)
  ELSE ScalarRequestCore_init(p, parameter)

\* The ways a caller writes a specifier for the i-th registry definition.
ValidForms ==
  {"code_lower", "code_upper", "code_mixed", "name_upper", "name_lower", "enum"}

\* Near misses of the i-th definition; used where they name no parameter.
UnknownForms == {"code_prefix", "code_extended", "name_truncated"}

Forms == ValidForms \cup UnknownForms

\* The forms the parameter lists are written in: constants, lower-case and
\* upper-case codes as in the request tests, and one near miss.
ListForms == {"enum", "code_lower", "code_upper", "code_prefix"}

MixedCase(s) ==
  [i \in 1..Len(s) |-> IF i % 2 = 1 THEN char_upper(s[i]) ELSE char_lower(s[i])]

Specifier(cfg, i, form) ==
  LET m == cfg.parameter_base[i]
  IN  CASE form = "code_lower"     -> [kind |-> "str", text |-> str_lower(m.value)]
        [] form = "code_upper"     -> [kind |-> "str", text |-> str_upper(m.value)]
        [] form = "code_mixed"     -> [kind |-> "str", text |-> MixedCase(m.value)]
        [] form = "name_upper"     -> [kind |-> "str", text |-> str_upper(m.name)]
        [] form = "name_lower"     -> [kind |-> "str", text |-> str_lower(m.name)]
        [] form = "enum"           -> [kind |-> "enum", text |-> m.name]
        [] form = "code_prefix"    ->
             [kind |-> "str", text |-> SubSeq(m.value, 1, Len(m.value) - 1)]
        [] form = "code_extended"  -> [kind |-> "str", text |-> m.value \o <<"x">>]
        [] form = "name_truncated" ->
             [kind |-> "str", text |-> SubSeq(m.name, 1, Len(m.name) - 1)]

RegistryBody(p) == IF p = "noaa" THEN DAILY_body ELSE DwdDaily_body

NoaaKeySet ==
  {str_upper(DAILY_body[i].name) : i \in 1..Len(DAILY_body)}
    \cup {str_upper(DAILY_body[i].value) : i \in 1..Len(DAILY_body)}

DwdKeySet ==
  {str_upper(DwdDaily_body[i].name) : i \in 1..Len(DwdDaily_body)}
    \cup {str_upper(DwdDaily_body[i].value) : i \in 1..Len(DwdDaily_body)}

\* The text equals, after upper-casing, no name and no code of the registry.
IsUnknown(p, s) ==
  str_upper(s) \notin (IF p = "noaa" THEN NoaaKeySet ELSE DwdKeySet)

\* The constructor runs once per request object, which owns its resolved
\* parameter list from then on. items: a sequence of <<definition index, form>>
NewRequest(p, items) ==
  /\ request.status = "none"
  /\ \A k \in 1..Len(items) :
       items[k][2] \in UnknownForms =>
         IsUnknown(p, Specifier(Provider(p), items[k][1], items[k][2]).text)
  /\ request' = Construct(p, [k \in 1..Len(items) |->
                                Specifier(Provider(p), items[k][1], items[k][2])])
  /\ intended' = [k \in 1..Len(items) |->
                    IF items[k][2] \in ValidForms THEN items[k][1] ELSE 0]
  /\ UNCHANGED <<listingVars, collectVars, network, chunkVars>>

\* A request for a list of parameters, as in the request tests.
RequestList ==
  \E p \in ProviderNames : \E n \in 1..MaxParams :
    \E items \in [1..n -> (1..SampleSize) \X ListForms] :
      NewRequest(p, items)

\* A request for one parameter given as a single string or constant.
RequestSingle ==
  \E p \in ProviderNames : \E i \in 1..Len(Provider(p).parameter_base) :
    \E f \in Forms :
      NewRequest(p, <<<<i, f>>>>)

(***************************************************************************)
(* Text files: lines, slices, blanks                                       *)
(***************************************************************************)
\* A missing value of a frame (numpy.nan); no text equals it.
NaN == <<"<NaN>">>

MaxOf(S) == CHOOSE x \in S : \A y \in S : y <= x

\* text[a:b] of Python: characters a (counted from 0) up to b exclusive,
\* cut at the end of the text.
slice(text, a, b) == SubSeq(text, a + 1, IF b < Len(text) THEN b ELSE Len(text))

\* str.strip of blanks and tabs
strip(text) ==
  LET solid == {i \in 1..Len(text) : text[i] \notin {" ", "\t"}}
  IN  IF solid = {} THEN <<>> ELSE SubSeq(text, MinOf(solid), MaxOf(solid))

RECURSIVE join(_, _)
\* every part followed by the terminator
join(parts, terminator) ==
  IF parts = <<>> THEN <<>>
  ELSE Head(parts) \o terminator \o join(Tail(parts), terminator)

RECURSIVE splitlines(_)
\* the lines of a text; a final newline ends the last line and starts none
splitlines(text) ==
  IF text = <<>> THEN <<>>
  ELSE LET ends == {i \in 1..Len(text) : text[i] = "\n"}
       IN  IF ends = {} THEN <<text>>
           ELSE <<SubSeq(text, 1, MinOf(ends) - 1)>>
                  \o splitlines(SubSeq(text, MinOf(ends) + 1, Len(text)))

(***************************************************************************)
(* Station listing: NoaaGhcnRequest._all                                   *)
(***************************************************************************)
\* Longest listing document, in lines.
MaxLines == 2

\* NoaaGhcnRequest._listing_colspecs with the height column one wider.
listing_colspecs_wide == <<<<0, 11>>, <<12, 20>>, <<21, 30>>, <<31, 38>>, <<41, 71>>>>

\* NoaaGhcnRequest._listing_colspecs
listing_colspecs == <<<<0, 11>>, <<12, 20>>, <<21, 30>>, <<31, 37>>, <<41, 71>>>>

\* The column names _all gives the listing frame.
listing_columns == <<"station_id", "latitude", "longitude", "height", "name">>

SpecSampleRow ==
  <<"G","M","E","0","0","1","1","1","4","6","4"," "," ","5","0",".","7","9","8","3"," "," "," "," ","6",".","0","2","4","4"," "," "," ","2","0","2",".","0"," "," ","A","A","C","H","E","N">>

AlignedRow ==
  <<"G","M","E","0","0","1","1","1","4","6","4"," "," ","5","0",".","7","9","8","3"," "," "," "," ","6",".","0","2","4","4"," "," ","2","0","2",".","0"," "," "," "," ","A","A","C","H","E","N">>

FullRow ==
  <<"U","S","W","0","0","0","9","4","7","2","8"," "," ","4","0",".","7","7","8","9"," "," ","-","7","3",".","9","6","9","2"," "," "," ","3","9",".","6"," ","N","Y"," ","N","E","W"," ","Y","O","R","K"," ","C","N","T","R","L"," ","P","K"," ","T","W","R"," "," "," "," "," "," "," "," "," "," "," "," "," "," ","H","C","N"," ","7","2","5","0","6">>

NoNameRow ==
  <<"G","M","E","0","0","1","1","1","4","6","4"," "," ","5","0",".","7","9","8","3"," "," "," "," ","6",".","0","2","4","4"," "," ","2","0","2",".","0">>

TrimmedRow ==
  <<"A","Q","C","0","0","9","1","4","0","0","0"," ","-","1","4",".","3","1","6","7"," ","-","1","7","0",".","7","6","6","7"," "," ","4","0","8",".","4"," ","A","S"," ","A","A","S","U","F","O","U">>

IdOnlyRow ==
  <<"G","M","E","0","0","1","1","1","4","6","4">>

\* The lines a listing document is made of; none of them is blank.
LineSamples ==
  {SpecSampleRow, AlignedRow, FullRow, TrimmedRow, NoNameRow, IdOnlyRow}

\* The listing documents the server may send, the empty one included.
ListingDocuments ==
  UNION {[1..n -> LineSamples] : n \in 0..MaxLines}

\* One cell of read_fwf with dtype=str: the stripped slice; an empty one is
\* missing.
fwf_cell(line, colspec) ==
  LET cell == strip(slice(line, colspec[1], colspec[2]))
  IN  IF cell = <<>> THEN NaN ELSE cell

\* pd.read_fwf that refuses a line ending before the last column starts.
read_fwf_strict(text, colspecs) ==
  LET lines == splitlines(text)
  IN  IF lines = <<>> THEN [status |-> "EmptyDataError", rows |-> <<>>]
      ELSE IF \E r \in 1..Len(lines) : Len(lines[r]) <= colspecs[Len(colspecs)][1]
      THEN [status |-> "ParserError", rows |-> <<>>]
      ELSE [status |-> "ok",
            rows |-> [r \in 1..Len(lines) |->
                        [c \in 1..Len(colspecs) |-> fwf_cell(lines[r], colspecs[c])]]]

\* pd.read_fwf(file, dtype=str, header=None, colspecs=...) on the text left in
\* the stream: one row per line, one cell per column range; nothing left to
\* read is an error.
read_fwf(text, colspecs) ==
  LET lines == splitlines(text)
  IN  IF lines = <<>> THEN [status |-> "EmptyDataError", rows |-> <<>>]
      ELSE [status |-> "ok",
            rows |-> [r \in 1..Len(lines) |->
                        [c \in 1..Len(colspecs) |-> fwf_cell(lines[r], colspecs[c])]]]

\* NoaaGhcnRequest._base_url
listing_url == "https://www1.ncdc.noaa.gov/pub/data/ghcn/daily/ghcnd-stations.txt"

NoListing == [status |-> "none", content |-> <<>>, pos |-> 0, shared |-> FALSE]

NoStations == [status |-> "none", columns |-> <<>>, rows |-> <<>>]

\* df = pd.read_fwf(file, ...); df.columns = [...]: the frame _all returns
\* from a stream with the given content and position.
listing_frame(content, pos) ==
  LET df == read_fwf(SubSeq(content, pos + 1, Len(content)), listing_colspecs)
  IN  IF df.status # "ok"
      THEN [status |-> df.status, columns |-> <<>>, rows |-> <<>>]
      ELSE [status |-> "ok", columns |-> listing_columns, rows |-> df.rows]

\* NoaaGhcnRequest._all. The listing not cached: requests.get, then
\* raise_for_status; the stream made of the content is cached and parsed. A
\* cache backend that keeps the object itself (shared) sees the stream read
\* to its end; one that stores a serialised copy keeps position 0. The
\* listing cached: no request is made; the stream the cache hands out is
\* parsed from its position.
NoaaGhcnRequest_all ==
  /\ IF listing_cache.status = "none"
     THEN \E http_ok \in BOOLEAN :
            IF ~http_ok
            THEN /\ stations' = [status |-> "HTTPError", columns |-> <<>>, rows |-> <<>>]
                 /\ network' = network \cup {listing_url}
                 /\ UNCHANGED <<listing_cache, listing_served>>
            ELSE \E doc \in ListingDocuments : \E shared \in BOOLEAN :
                   LET content == join(doc, <<"\n">>)
                   IN  /\ listing_served' = doc
                       /\ network' = network \cup {listing_url}
                       /\ stations' = listing_frame(content, 0)
                       /\ listing_cache' =
                            [status |-> "cached", content |-> content,
                             pos |-> IF shared THEN Len(content) ELSE 0,
                             shared |-> shared]
     ELSE /\ stations' = listing_frame(listing_cache.content, listing_cache.pos)
          /\ listing_cache' =
               [listing_cache EXCEPT !.pos = IF listing_cache.shared
                                             THEN Len(listing_cache.content) ELSE 0]
          /\ UNCHANGED <<listing_served, network>>
  /\ UNCHANGED <<requestVars, collectVars, chunkVars>>

(***************************************************************************)
(* Per-station observation files                                           *)
(***************************************************************************)
RECURSIVE split(_, _)
\* str.split(sep): the fields between the separators, empty ones included
split(text, sep) ==
  LET at == {i \in 1..Len(text) : text[i] = sep}
  IN  IF at = {} THEN <<text>>
      ELSE <<SubSeq(text, 1, MinOf(at) - 1)>>
             \o split(SubSeq(text, MinOf(at) + 1, Len(text)), sep)

RECURSIVE join_fields(_, _)
\* sep.join(fields)
join_fields(fields, sep) ==
  IF fields = <<>> THEN <<>>
  ELSE IF Len(fields) = 1 THEN fields[1]
  ELSE fields[1] \o <<sep>> \o join_fields(Tail(fields), sep)

\* The files the server holds, as the rows and fields they are written from.
\* GHCN by_station rows have eight fields: id, date, element, value, m-flag,
\* q-flag, s-flag, obs-time.
File_Good8 ==
  [gzip |-> TRUE,
   rows |->
     <<<<<<"G","M","E","0","0","1","1","1","4","6","4">>, <<"1","9","3","1","0","1","0","1">>, <<"T","M","A","X">>, <<"-","1","3">>, <<>>, <<>>, <<"E">>, <<>>>>,
       <<<<"G","M","E","0","0","1","1","1","4","6","4">>, <<"1","9","3","1","0","1","0","1">>, <<"p","r","c","p">>, <<"5">>, <<"T">>, <<>>, <<"E">>, <<"0","7","0","0">>>>,
       <<<<"G","M","E","0","0","1","1","1","4","6","4">>, <<"1","9","3","1","0","1","0","2">>, <<"T","m","I","n">>, <<"-","4","1">>, <<>>, <<"I">>, <<"E">>, <<>>>>>>]

File_Five ==
  [gzip |-> TRUE,
   rows |->
     <<<<<<"G","M","E","0","0","1","1","1","4","6","4">>, <<"1","9","3","1","0","1","0","1">>, <<"T","M","A","X">>, <<"-","1","3">>, <<>>>>,
       <<<<"G","M","E","0","0","1","1","1","4","6","4">>, <<"1","9","3","1","0","1","0","1">>, <<"p","r","c","p">>, <<"5">>, <<"G">>>>>>]

File_Six ==
  [gzip |-> TRUE,
   rows |->
     <<<<<<"G","M","E","0","0","1","1","1","4","6","4">>, <<"1","9","3","1","0","1","0","1">>, <<"T","M","A","X">>, <<"-","1","3">>, <<>>, <<"E">>>>,
       <<<<"G","M","E","0","0","1","1","1","4","6","4">>, <<"1","9","3","1","0","1","0","1">>, <<"p","r","c","p">>, <<"5">>, <<>>, <<"E">>>>>>]

File_Nine ==
  [gzip |-> TRUE,
   rows |->
     <<<<<<"G","M","E","0","0","1","1","1","4","6","4">>, <<"1","9","3","1","0","1","0","1">>, <<"T","M","A","X">>, <<"-","1","3">>, <<>>, <<>>, <<"E">>, <<>>, <<"Z">>>>,
       <<<<"G","M","E","0","0","1","1","1","4","6","4">>, <<"1","9","3","1","0","1","0","1">>, <<"p","r","c","p">>, <<"5">>, <<>>, <<>>, <<"E">>, <<"0","7","0","0">>, <<"Z">>>>>>]

File_Three ==
  [gzip |-> TRUE,
   rows |->
     <<<<<<"U","S","W","0","0","0","9","4","7","2","8">>, <<"1","9","3","1","0","1","0","1">>, <<"T","M","A","X">>>>>>]

File_RaggedLong ==
  [gzip |-> TRUE,
   rows |->
     <<<<<<"U","S","W","0","0","0","9","4","7","2","8">>, <<"1","9","3","1","0","1","0","1">>, <<"T","M","A","X">>, <<"-","1","3">>, <<>>, <<>>, <<"E">>, <<>>>>,
       <<<<"U","S","W","0","0","0","9","4","7","2","8">>, <<"1","9","3","1","0","1","0","1">>, <<"p","r","c","p">>, <<"5">>, <<>>, <<>>, <<"E">>, <<"0","7","0","0">>, <<"Z">>>>>>]

File_RaggedShort ==
  [gzip |-> TRUE,
   rows |->
     <<<<<<"U","S","W","0","0","0","9","4","7","2","8">>, <<"1","9","3","1","0","1","0","1">>, <<"T","M","A","X">>, <<"-","1","3">>, <<>>, <<>>, <<"E">>, <<>>>>,
       <<<<"U","S","W","0","0","0","9","4","7","2","8">>, <<"1","9","3","1","0","1","0","2">>, <<"S","n","O","w">>, <<"0">>, <<>>, <<>>, <<"7">>>>>>]

\* Eight fields, the element left empty.
File_NoCodes ==
  [gzip |-> TRUE,
   rows |->
     <<<<<<"U","S","W","0","0","0","9","4","7","2","8">>, <<"1","9","3","1","0","1","0","1">>, <<>>, <<"-","1","3">>, <<>>, <<>>, <<"E">>, <<>>>>>>]

File_Empty ==
  [gzip |-> TRUE,
   rows |->
     <<>>]

File_NotGzip ==
  [gzip |-> FALSE,
   rows |->
     <<<<<<"U","S","W","0","0","0","9","4","7","2","8">>, <<"1","9","3","1","0","1","0","1">>, <<"T","M","A","X">>, <<"-","1","3">>, <<>>, <<>>, <<"E">>, <<>>>>>>]

FileTable ==
  [Good8 |-> File_Good8, Five |-> File_Five, Six |-> File_Six,
   Nine |-> File_Nine, Three |-> File_Three, RaggedLong |-> File_RaggedLong,
   RaggedShort |-> File_RaggedShort, NoCodes |-> File_NoCodes,
   Empty |-> File_Empty,
   NotGzip |-> File_NotGzip]

FileNames == DOMAIN FileTable

\* The bytes of a file: its csv text, gzip-compressed or not.
FileBytes(f) ==
  [gzip |-> FileTable[f].gzip,
   text |-> join([r \in 1..Len(FileTable[f].rows) |->
                    join_fields(FileTable[f].rows[r], ",")], <<"\n">>)]

StationIds == {"GME00111464", "USW00094728"}

\* The files the server may hold for a station.
StationFiles(station_id) ==
  IF station_id = "GME00111464" THEN {"Good8", "Five", "Six", "Nine"}
  ELSE {"Three", "RaggedLong", "RaggedShort", "NoCodes", "Empty", "NotGzip"}

\* The address the server publishes a station's file under.
server_url(station_id) ==
  "https://www1.ncdc.noaa.gov/pub/data/ghcn/daily/by_station/"
    \o station_id \o ".csv.gz"

\* What the server answers a GET of the address with.
Served(url) ==
  UNION {StationFiles(s) : s \in {t \in StationIds : server_url(t) = url}}

(***************************************************************************)
(* Value collector: NoaaGhcnValues._collect_station_parameter              *)
(***************************************************************************)
\* Last minute of the modelled time.
MaxTime == 6

\* CacheExpiry.FIVE_MINUTES, in minutes
FIVE_MINUTES == 5

\* The address with the station of the usage example written into it.
station_url_fixed(station_id) ==
  "https://www1.ncdc.noaa.gov/pub/data/ghcn/daily/by_station/"
    \o "GME00111464" \o ".csv.gz"

\* url = self._base_url.format(station_id=station_id)
station_url(station_id) ==
  "https://www1.ncdc.noaa.gov/pub/data/ghcn/daily/by_station/"
    \o station_id \o ".csv.gz"

Urls == {station_url(s) : s \in StationIds}

NoEntry == [status |-> "none", payload |-> "", stored_at |-> 0]

\* The caching collaborator: an entry is served while not older than ttl.
cache_valid(entry, ttl, t) ==
  entry.status = "cached" /\ t - entry.stored_at <= ttl

\* The tokens pd.read_csv reads as missing, among them the empty field.
na_values ==
  {<<>>, <<"N","A">>, <<"N","a","N">>, <<"n","a","n">>,
   <<"N","U","L","L">>, <<"n","u","l","l">>}

\* The token of a field as the parser sees it: NaN for a missing one.
csv_cell(field) == IF field \in na_values THEN NaN ELSE field

Digits == <<"0","1","2","3","4","5","6","7","8","9">>

DigitSet == {Digits[i] : i \in 1..Len(Digits)}

DigitValue == [d \in DigitSet |-> (CHOOSE i \in 1..Len(Digits) : Digits[i] = d) - 1]

\* An integer literal: digits, after an optional sign.
is_integer(text) ==
  LET body == IF text # <<>> /\ text[1] \in {"-", "+"} THEN Tail(text) ELSE text
  IN  body # <<>> /\ \A i \in 1..Len(body) : body[i] \in DigitSet

RECURSIVE digits_value(_)
digits_value(body) ==
  IF body = <<>> THEN 0
  ELSE 10 * digits_value(SubSeq(body, 1, Len(body) - 1)) + DigitValue[body[Len(body)]]

\* int(text) of an integer literal
to_number(text) ==
  IF text[1] = "-" THEN 0 - digits_value(Tail(text))
  ELSE IF text[1] = "+" THEN digits_value(Tail(text))
  ELSE digits_value(text)

\* The cells of a frame read by pd.read_csv: a string, a number or a
\* missing value.
str_cell(text) == [kind |-> "str", text |-> text, num |-> 0]

num_cell(n) == [kind |-> "num", text |-> <<>>, num |-> n]

nan_cell == [kind |-> "nan", text |-> <<>>, num |-> 0]

\* The type pd.read_csv infers for a column from its tokens: int64 when all
\* are integer literals, float64 when some are missing and the others are
\* integer literals, and else object, a column of strings. (Literals with a
\* fraction or an exponent are not among the fields considered.)
infer_dtype(tokens) ==
  IF \E r \in 1..Len(tokens) : tokens[r] # NaN /\ ~is_integer(tokens[r])
  THEN "object"
  ELSE IF \E r \in 1..Len(tokens) : tokens[r] = NaN THEN "float64"
  ELSE "int64"

typed_cell(token, dtype) ==
  IF token = NaN THEN nan_cell
  ELSE IF dtype = "object" THEN str_cell(token)
  ELSE num_cell(to_number(token))

\* pd.read_csv(file, sep=",", compression="gzip", header=None): blank lines
\* are skipped, the first line sets the number of columns, a longer line is
\* an error and a shorter one is filled with missing values; every column
\* gets the type inferred from its tokens.
read_csv(bytes) ==
  IF ~bytes.gzip
  THEN [status |-> "BadGzipFile", ncols |-> 0, dtypes |-> <<>>, rows |-> <<>>]
  ELSE
    LET lines == SelectSeq(splitlines(bytes.text), LAMBDA l : l # <<>>)
        recs  == [r \in 1..Len(lines) |-> split(lines[r], ",")]
        token(r, c) == IF c <= Len(recs[r]) THEN csv_cell(recs[r][c]) ELSE NaN
        dtypes == [c \in 1..Len(recs[1]) |->
                     infer_dtype([r \in 1..Len(recs) |-> token(r, c)])]
    IN  IF lines = <<>>
        THEN [status |-> "EmptyDataError", ncols |-> 0, dtypes |-> <<>>,
              rows |-> <<>>]
        ELSE IF \E r \in 1..Len(recs) : Len(recs[r]) > Len(recs[1])
        THEN [status |-> "ParserError", ncols |-> 0, dtypes |-> <<>>,
              rows |-> <<>>]
        ELSE [status |-> "ok", ncols |-> Len(recs[1]), dtypes |-> dtypes,
              rows |-> [r \in 1..Len(recs) |->
                          [c \in 1..Len(recs[1]) |->
                             typed_cell(token(r, c), dtypes[c])]]]

\* df.iloc[:, :5]: the first five columns, whatever follows them.
iloc_first_five(df) ==
  LET keep == IF df.ncols > 5 THEN 5 ELSE df.ncols
  IN  [df EXCEPT !.ncols = keep,
                 !.dtypes = SubSeq(df.dtypes, 1, keep),
                 !.rows = [r \in 1..Len(df.rows) |-> SubSeq(df.rows[r], 1, keep)]]

\* df.iloc[:, :-3]: all columns but the last three.
iloc_drop_last_three(df) ==
  LET keep == IF df.ncols > 3 THEN df.ncols - 3 ELSE 0
  IN  [df EXCEPT !.ncols = keep,
                 !.dtypes = SubSeq(df.dtypes, 1, keep),
                 !.rows = [r \in 1..Len(df.rows) |-> SubSeq(df.rows[r], 1, keep)]]

\* The column names of the collector.
value_columns == <<"station_id", "date", "parameter", "value", "quality">>

\* Renaming by position: the names go to as many columns as there are.
set_columns_by_position(df, columns) ==
  LET keep == IF df.ncols > Len(columns) THEN Len(columns) ELSE df.ncols
  IN  [status |-> "ok", columns |-> SubSeq(columns, 1, keep),
       dtypes |-> SubSeq(df.dtypes, 1, keep),
       rows |-> [r \in 1..Len(df.rows) |-> SubSeq(df.rows[r], 1, keep)]]

\* df.columns = columns: a frame with another number of columns is refused.
set_columns(df, columns) ==
  IF df.ncols # Len(columns)
  THEN [status |-> "ValueError", columns |-> <<>>, dtypes |-> <<>>, rows |-> <<>>]
  ELSE [status |-> "ok", columns |-> columns, dtypes |-> df.dtypes,
        rows |-> df.rows]

\* str.lower of a cell of a column of strings: a missing value stays missing.
lower_cell(cell) ==
  IF cell.kind = "str" THEN str_cell(str_lower(cell.text)) ELSE cell

\* Lower-casing every column of strings.
lower_every_column(df) ==
  [df EXCEPT !.rows =
     [r \in 1..Len(df.rows) |->
        [c \in 1..Len(df.rows[r]) |-> lower_cell(df.rows[r][c])]]]

\* df.loc[:, "parameter"] = df.loc[:, "parameter"].str.lower(): the .str
\* accessor is refused on a column that is not one of strings.
lower_parameter(df) ==
  LET c == CHOOSE k \in 1..Len(df.columns) : df.columns[k] = "parameter"
  IN  IF \A k \in 1..Len(df.columns) : df.columns[k] # "parameter" THEN df
      ELSE IF df.dtypes[c] # "object"
      THEN [status |-> "AttributeError", columns |-> <<>>, dtypes |-> <<>>,
            rows |-> <<>>]
      ELSE [df EXCEPT !.rows =
              [r \in 1..Len(df.rows) |->
                 [df.rows[r] EXCEPT ![c] = lower_cell(@)]]]

\* The frame _collect_station_parameter makes of the downloaded bytes, or
\* the error it ends with.
station_frame(bytes) ==
  LET df == read_csv(bytes)
  IN  IF df.status # "ok"
      THEN [status |-> df.status, columns |-> <<>>, dtypes |-> <<>>, rows |-> <<>>]
      ELSE LET named == set_columns(iloc_drop_last_three(df), value_columns)
           IN  IF named.status # "ok" THEN named ELSE lower_parameter(named)

\* The frames of the files the server holds.
frames_by_file == [f \in FileNames |-> station_frame(FileBytes(f))]

NoCollection ==
  [status |-> "none", station_id |-> "", parameter |-> "", payload |-> "",
   downloads |-> 0, columns |-> <<>>, dtypes |-> <<>>, rows |-> <<>>]

\* NoaaGhcnValues._collect_station_parameter(station_id, parameter,
\* dataset): download_file(url, FIVE_MINUTES) returns the cached bytes of the
\* url while the entry is valid, and else fetches them and stores them; the
\* bytes are then read. parameter and dataset are ignored.
collect_station_parameter(station_id, parameter) ==
  LET url   == station_url(station_id)
      entry == payload_cache[url]
  IN  /\ IF cache_valid(entry, FIVE_MINUTES, now)
         THEN /\ collected' =
                   [status |-> frames_by_file[entry.payload].status,
                    station_id |-> station_id, parameter |-> parameter,
                    payload |-> entry.payload, downloads |-> 0,
                    columns |-> frames_by_file[entry.payload].columns,
                    dtypes |-> frames_by_file[entry.payload].dtypes,
                    rows |-> frames_by_file[entry.payload].rows]
              /\ UNCHANGED <<payload_cache, network>>
         ELSE \/ /\ collected' =
                      [NoCollection EXCEPT !.status = "HTTPError",
                                           !.station_id = station_id,
                                           !.parameter = parameter,
                                           !.downloads = 1]
                 /\ network' = network \cup {url}
                 /\ UNCHANGED payload_cache
              \/ \E f \in Served(url) :
                   /\ network' = network \cup {url}
                   /\ payload_cache' =
                        [payload_cache EXCEPT ![url] =
                           [status |-> "cached", payload |-> f, stored_at |-> now]]
                   /\ collected' =
                        [status |-> frames_by_file[f].status,
                         station_id |-> station_id, parameter |-> parameter,
                         payload |-> f, downloads |-> 1,
                         columns |-> frames_by_file[f].columns,
                         dtypes |-> frames_by_file[f].dtypes,
                         rows |-> frames_by_file[f].rows]
      /\ UNCHANGED <<now, requestVars, listingVars, chunkVars>>

Collect ==
  \E station_id \in StationIds : \E parameter \in {"prcp", "tmax"} :
    /\ collect_station_parameter(station_id, parameter)
    /\ UNCHANGED output

\* The element codes of the parameters asked for.
parameter_code ==
  [prcp |-> <<"p","r","c","p">>, tmax |-> <<"t","m","a","x">>]

\* The factor that takes a raw value to SI units, as a fraction: GHCN gives
\* tenths of the unit.
si_factor == [num |-> 1, den |-> 10]

NoOutput == [status |-> "none", si_units |-> FALSE, rows |-> <<>>]

\* The value of a cell times a factor, as a fraction; a cell that is no
\* number stays as it is.
rescale(cell, factor) ==
  IF cell.kind = "num"
  THEN [kind |-> "num", num |-> cell.num * factor.num, den |-> factor.den]
  ELSE [kind |-> cell.kind, num |-> 0, den |-> 1]

\* The tidy rows made of a collected frame: the rows of the parameter asked
\* for, in their order, each with the number of the frame row it comes
\* from; the value is rescaled to SI units when si_units is set and is the
\* value of the frame otherwise.
normalize(df, parameter, si_units) ==
  LET wanted == SelectSeq([r \in 1..Len(df.rows) |-> r],
                          LAMBDA r : df.rows[r][3] = str_cell(parameter_code[parameter]))
  IN  [status |-> "ok", si_units |-> si_units,
       rows |-> [k \in 1..Len(wanted) |->
                   [row |-> wanted[k],
                    station_id |-> df.rows[wanted[k]][1],
                    date |-> df.rows[wanted[k]][2],
                    parameter |-> df.rows[wanted[k]][3],
                    value |-> rescale(df.rows[wanted[k]][4],
                                      IF si_units THEN si_factor
                                      ELSE [num |-> 1, den |-> 1]),
                    quality |-> df.rows[wanted[k]][5]]]]

\* One station's turn of a values query: the station's frame is collected
\* and normalized; an error of the collector ends the query.
values_query(station_id, parameter, si_units) ==
  /\ collect_station_parameter(station_id, parameter)
  /\ output' = IF collected'.status = "ok"
                THEN normalize(collected', parameter, si_units)
                ELSE [NoOutput EXCEPT !.status = collected'.status,
                                      !.si_units = si_units]

Query ==
  \E station_id \in StationIds : \E parameter \in {"prcp", "tmax"} :
    \E si_units \in BOOLEAN :
      values_query(station_id, parameter, si_units)

\* A minute passes.
Tick ==
  /\ now < MaxTime
  /\ now' = now + 1
  /\ UNCHANGED <<payload_cache, collected, output, network, requestVars,
                 listingVars, chunkVars>>

(***************************************************************************)
(* A session: a request with a date range, its listing and its values      *)
(***************************************************************************)
\* The last day considered.
MaxDate == 2

Dates == None..MaxDate

\* NoaaGhcnRequest(parameter="precipitation_height", start_date=...,
\* end_date=...): the construction fetches nothing.
NewDatedRequest ==
  /\ request.status = "none"
  /\ \E start_date \in Dates : \E end_date \in Dates :
       request' = NoaaGhcnRequest_init_dates(
                    <<Specifier(NoaaGhcnRequest, 1, "name_lower")>>,
                    start_date, end_date)
  /\ intended' = <<1>>
  /\ UNCHANGED <<listingVars, collectVars, network, chunkVars>>

\* request.all(): the listing of a constructed request.
SessionAll ==
  /\ request.status = "ok"
  /\ NoaaGhcnRequest_all

\* request.filter_by_station_id(station_id="GME00111464").values.query():
\* the values of a station of a constructed request.
SessionValues ==
  /\ request.status = "ok"
  /\ stations.status = "ok"
  /\ \E si_units \in BOOLEAN : values_query("GME00111464", "prcp", si_units)

(***************************************************************************)
(* The lazy chunked file reader: read_in_chunks                            *)
(***************************************************************************)
\* The longest file content considered.
MaxFileLen == 3

\* The largest chunk_size considered besides the default.
MaxChunk == 3

\* How many file objects are opened, and how many generators are made.
MaxOpens == 2

MaxReaders == 3

\* def read_in_chunks(file_object, chunk_size=1024)
chunk_size_default == 1024

ByteSamples == {"x", "y"}

FileContents == UNION {[1..n -> ByteSamples] : n \in 0..MaxFileLen}

ChunkSizes == (1..MaxChunk) \cup {chunk_size_default}

\* file_object.read() without a size: everything up to the end.
file_read_whole(content, pos, size) ==
  [data |-> SubSeq(content, pos + 1, Len(content)), pos |-> Len(content)]

\* A read that rewinds the file once it has reached the end.
file_read_rewinding(content, pos, size) ==
  LET data == slice(content, pos, pos + size)
  IN  [data |-> data, pos |-> IF data = <<>> THEN 0 ELSE pos + Len(data)]

\* file_object.read(chunk_size) of a file: the next chunk_size bytes, fewer
\* at the end of the file and none after it; the position moves past them.
file_read(content, pos, size) ==
  LET data == slice(content, pos, pos + size)
  IN  [data |-> data, pos |-> pos + Len(data)]

NoFile ==
  [status |-> "none", content |-> <<>>, pos |-> 0, drained |-> FALSE, opens |-> 0]

NoReader ==
  [status |-> "none", chunk_size |-> 0, start |-> -1, chunks |-> <<>>,
   after_drained |-> FALSE, round |-> 0]

\* The generator is being iterated.
Live == reader.status \in {"created", "running"}

\* open(...): a new file object at position 0. The source is opened while
\* no generator is being iterated.
open ==
  /\ ~Live
  /\ file_object.opens < MaxOpens
  /\ \E content \in FileContents :
       file_object' = [status |-> "open", content |-> content, pos |-> 0,
                       drained |-> FALSE, opens |-> file_object.opens + 1]
  /\ reader' = [NoReader EXCEPT !.round = reader.round]
  /\ UNCHANGED <<requestVars, listingVars, collectVars, network>>

\* read_in_chunks(file_object, chunk_size): the call makes the generator
\* and reads nothing yet; a generator made earlier is given up.
read_in_chunks ==
  /\ file_object.status = "open"
  /\ reader.round < MaxReaders
  /\ \E chunk_size \in ChunkSizes :
       reader' = [status |-> "created", chunk_size |-> chunk_size,
                  start |-> -1, chunks |-> <<>>,
                  after_drained |-> file_object.drained,
                  round |-> reader.round + 1]
  /\ UNCHANGED <<file_object, requestVars, listingVars, collectVars, network>>

\* next(generator): one turn of the loop. data = file_object.read(
\* chunk_size); if not data: break (the generator is exhausted); else
\* yield data.
generator_next ==
  /\ Live
  /\ LET r == file_read(file_object.content, file_object.pos, reader.chunk_size)
         start == IF reader.start = -1 THEN file_object.pos ELSE reader.start
     IN  IF r.data = <<>>
         THEN /\ reader' = [reader EXCEPT !.status = "exhausted", !.start = start]
              /\ file_object' = [file_object EXCEPT !.pos = r.pos, !.drained = TRUE]
         ELSE /\ reader' = [reader EXCEPT !.status = "running", !.start = start,
                                          !.chunks = Append(@, r.data)]
              /\ file_object' = [file_object EXCEPT !.pos = r.pos]
  /\ UNCHANGED <<requestVars, listingVars, collectVars, network>>

(***************************************************************************)
(* Specifications                                                          *)
(***************************************************************************)
Init ==
  /\ request = NoRequest
  /\ intended = <<>>
  /\ listing_cache = NoListing
  /\ stations = NoStations
  /\ listing_served = <<>>
  /\ now = 0
  /\ payload_cache = [u \in Urls |-> NoEntry]
  /\ collected = NoCollection
  /\ output = NoOutput
  /\ network = {}
  /\ file_object = NoFile
  /\ reader = NoReader

NextRequest == RequestList \/ RequestSingle

SpecRequest == Init /\ [][NextRequest]_vars

NextListing == NoaaGhcnRequest_all

SpecListing == Init /\ [][NextListing]_vars

NextCollect == Collect \/ Tick

SpecCollect == Init /\ [][NextCollect]_vars

NextValues == Query

NextSession == NewDatedRequest \/ SessionAll \/ SessionValues

SpecSession == Init /\ [][NextSession]_vars

SpecValues == Init /\ [][NextValues]_vars

NextChunks == open \/ read_in_chunks \/ generator_next

SpecChunks == Init /\ [][NextChunks]_vars

\* The caller iterates the generator it holds: for chunk in read_in_chunks(...)
SpecChunksDriven == SpecChunks /\ WF_vars(generator_next)

\* The parts share no state; each is checked under its own specification,
\* and Spec is their interleaving.
Next ==
  \/ NextRequest
  \/ NextListing
  \/ NextCollect
  \/ NextValues
  \/ NextSession
  \/ NextChunks

Spec == Init /\ [][Next]_vars

(***************************************************************************)
(* Properties of request construction                                      *)
(***************************************************************************)
\* The pair the tests expect for the i-th registry definition.
Reference(p, i) ==
  IF p = "dwd" THEN parameters_reference[i]
  ELSE <<[enum |-> "NoaaGhcnParameter.DAILY", name |-> DAILY_body[i].name,
          value |-> DAILY_body[i].value],
         "NoaaGhcnDatasetBase.DAILY">>

IsUpperOrLower(spec) ==
  /\ spec.kind = "str"
  /\ spec.text = str_upper(spec.text) \/ spec.text = str_lower(spec.text)

Built == request.status # "none"

InputIdx == 1..Len(request.parameter_input)

\* C1: a request whose specifiers are valid parameter strings written all in
\* upper case or all in lower case is built, and its parameter list is the
\* reference list of (Parameter, Dataset) pairs of the definitions they name:
\* the upper-case and the lower-case request have the same request.parameter.
C1_UpperLowerSamePair ==
  (Built /\ \A k \in InputIdx :
              intended[k] # 0 /\ IsUpperOrLower(request.parameter_input[k]))
    => /\ request.status = "ok"
       /\ request.parameter =
            [k \in InputIdx |-> Reference(request.provider, intended[k])]

\* The DWD request for "TMK", "TXK" has been built and equals the reference.
C1_Witness ==
  /\ request.status = "ok"
  /\ request.provider = "dwd"
  /\ request.parameter_input =
       <<[kind |-> "str", text |-> <<"T","M","K">>],
         [kind |-> "str", text |-> <<"T","X","K">>]>>
  /\ request.parameter = SubSeq(parameters_reference, 1, 2)

\* C2: a built request has one pair per specifier, in input order, the i-th
\* being the reference pair of the i-th specifier; an enum constant gives the
\* pair that the agency-code string of that constant gives.
C2_ElementwiseInOrder ==
  request.status = "ok" =>
    /\ Len(request.parameter) = Len(request.parameter_input)
    /\ \A k \in InputIdx :
         /\ intended[k] # 0
         /\ request.parameter[k] = Reference(request.provider, intended[k])
         /\ request.parameter_input[k].kind = "enum" =>
              LET code == [kind |-> "str",
                           text |-> RegistryBody(request.provider)[intended[k]].value]
              IN  Construct(request.provider, <<code>>).parameter
                    = <<request.parameter[k]>>

\* A list of an enum constant followed by the code of an earlier definition.
C2_Witness ==
  /\ request.status = "ok"
  /\ request.provider = "noaa"
  /\ Len(request.parameter) = 2
  /\ request.parameter_input[1].kind = "enum"
  /\ request.parameter_input[2].kind = "str"
  /\ intended = <<2, 1>>
  /\ request.parameter[1][1].value = <<"s","n","o","w">>
  /\ request.parameter[2][1].value = <<"p","r","c","p">>

\* C3: a request with a string specifier that equals, after case
\* normalisation, neither a name nor a code of the registry fails with
\* LookupError and resolves nothing.
C3_UnknownFails ==
  (Built /\ \E k \in InputIdx :
              /\ request.parameter_input[k].kind = "str"
              /\ IsUnknown(request.provider, request.parameter_input[k].text))
    => /\ request.status = "LookupError"
       /\ request.parameter = <<>>

\* The request for "prc", a proper prefix of the code "prcp", has failed.
C3_Witness ==
  /\ request.status = "LookupError"
  /\ request.provider = "noaa"
  /\ request.parameter_input = <<[kind |-> "str", text |-> <<"p","r","c">>]>>
  /\ request.parameter = <<>>

\* No two names of NoaaGhcnParameter.DAILY are bound to the same member, and
\* no two definitions share a name or a value.
DAILY_NoAliases ==
  /\ Len(DAILY) = Len(DAILY_body)
  /\ \A i, j \in 1..Len(DAILY) :
       i # j => /\ DAILY[i] # DAILY[j]
                /\ DAILY[i].name # DAILY[j].name
                /\ DAILY[i].value # DAILY[j].value
                /\ DAILY_body[i].name # DAILY_body[j].name

\* C9: every agency code of NoaaGhcnParameter.DAILY belongs to exactly one
\* name and every name to exactly one code, and the name or code a NOAA
\* request was written with is matched by exactly one member, the one meant.
C9_RegistryUnambiguous ==
  /\ DAILY_NoAliases
  /\ (Built /\ request.provider = "noaa") =>
       \A k \in InputIdx :
         intended[k] # 0 =>
           LET u == str_upper(request.parameter_input[k].text)
           IN  {i \in 1..Len(DAILY) :
                  NoaaGhcnRequest.keys[i].name = u \/ NoaaGhcnRequest.keys[i].value = u}
                 = {intended[k]}

\* The last definition of the registry has been resolved by its code.
C9_Witness ==
  /\ request.status = "ok"
  /\ request.provider = "noaa"
  /\ request.parameter_input = <<[kind |-> "str", text |-> <<"w","v","2","0">>]>>
  /\ intended = <<Len(DAILY_body)>>
  /\ request.parameter[1][1].name = DAILY_body[Len(DAILY_body)].name

(***************************************************************************)
(* Properties of the station listing                                       *)
(***************************************************************************)
Txt_GME00111464 == <<"G","M","E","0","0","1","1","1","4","6","4">>

Txt_50_7983 == <<"5","0",".","7","9","8","3">>

Txt_6_0244 == <<"6",".","0","2","4","4">>

Txt_202_0 == <<"2","0","2",".","0">>

Txt_202_ == <<"2","0","2",".">>

Txt_AACHEN == <<"A","A","C","H","E","N">>

Txt_ACHEN == <<"A","C","H","E","N">>

\* C4 as stated: the row "GME00111464  50.7983    6.0244   202.0  AACHEN"
\* of a parsed listing gives station_id "GME00111464", latitude "50.7983",
\* longitude "6.0244", height "202.0" and name "AACHEN".
C4_SampleRowAsStated ==
  stations.status = "ok" =>
    \A r \in 1..Len(listing_served) :
      listing_served[r] = SpecSampleRow =>
        stations.rows[r] =
          <<Txt_GME00111464, Txt_50_7983, Txt_6_0244, Txt_202_0, Txt_AACHEN>>

\* C4, amended: a parsed listing has one row per line under the five column
\* names; the row "GME00111464  50.7983    6.0244   202.0  AACHEN" gives
\* station_id "GME00111464", latitude "50.7983", longitude "6.0244", but
\* height "202." and name "ACHEN", since its height ends at offset 38 and its
\* name starts at offset 40; the row aligned to the offsets,
\* "GME00111464  50.7983    6.0244  202.0    AACHEN", gives the five values
\* of the claim.
C4_SampleRowAsSliced ==
  stations.status = "ok" =>
    /\ stations.columns = listing_columns
    /\ Len(stations.rows) = Len(listing_served)
    /\ \A r \in 1..Len(listing_served) :
         /\ listing_served[r] = SpecSampleRow =>
              stations.rows[r] =
                <<Txt_GME00111464, Txt_50_7983, Txt_6_0244, Txt_202_, Txt_ACHEN>>
         /\ listing_served[r] = AlignedRow =>
              stations.rows[r] =
                <<Txt_GME00111464, Txt_50_7983, Txt_6_0244, Txt_202_0, Txt_AACHEN>>

\* A listing of the sample row and the aligned row has been parsed.
C4_Witness ==
  /\ stations.status = "ok"
  /\ listing_served = <<SpecSampleRow, AlignedRow>>
  /\ stations.rows[1][4] = Txt_202_
  /\ stations.rows[1][5] = Txt_ACHEN
  /\ stations.rows[2][4] = Txt_202_0
  /\ stations.rows[2][5] = Txt_AACHEN

\* A line of the listing ends at or before the offset where a column starts.
EndsBefore(line, c) == Len(line) <= listing_colspecs[c][1]

ShortLineServed ==
  \E r \in 1..Len(listing_served) : EndsBefore(listing_served[r], 5)

\* C8 as stated: when a line of the fetched listing is too short to give five
\* fields, _all fails and returns no station record.
C8_ShortLineFails ==
  (stations.status \notin {"none", "HTTPError"} /\ ShortLineServed)
    => stations.status # "ok" /\ stations.rows = <<>>

\* C8, amended: _all has no "listing malformed" failure. Parsing a fetched,
\* non-empty listing from its beginning succeeds whatever the length of its
\* lines, and gives every line a record of five fields in which each column
\* that starts at or after the end of the line is missing (NaN).
C8_ShortLineGivesMissingFields ==
  /\ (listing_cache.status = "cached" /\ ~listing_cache.shared
        /\ listing_served # <<>>) => stations.status = "ok"
  /\ stations.status = "ok" =>
       /\ Len(stations.rows) = Len(listing_served)
       /\ \A r \in 1..Len(listing_served) :
            /\ Len(stations.rows[r]) = 5
            /\ \A c \in 1..5 :
                 EndsBefore(listing_served[r], c) => stations.rows[r][c] = NaN
            /\ Len(listing_served[r]) >= 11 =>
                 stations.rows[r][1] = SubSeq(listing_served[r], 1, 11)

\* A listing with a line of the station id alone has given a record with
\* four missing fields.
C8_Witness ==
  /\ stations.status = "ok"
  /\ listing_served = <<AlignedRow, IdOnlyRow>>
  /\ stations.rows[2] = <<Txt_GME00111464, NaN, NaN, NaN, NaN>>
  /\ stations.rows[1][5] = Txt_AACHEN

(***************************************************************************)
(* Properties of the value collector                                       *)
(***************************************************************************)
\* The rows and fields the collected file was written from.
RawRows == FileTable[collected.payload].rows

Collected == collected.status \notin {"none", "HTTPError"}

UpperLetters == {UpperAlpha[i] : i \in 1..Len(UpperAlpha)}

\* The same text but for the case of its letters.
SameLetters(a, b) ==
  Len(a) = Len(b) /\ \A i \in 1..Len(a) : char_upper(a[i]) = char_upper(b[i])

\* A frame cell holds the field it was read from: its text, or the number
\* it is the literal of; an empty field is missing.
HoldsField(cell, field) ==
  IF field = <<>> THEN cell = nan_cell
  ELSE \/ cell = str_cell(field)
       \/ is_integer(field) /\ cell = num_cell(to_number(field))

\* Row r of the frame holds the first five fields of row r of the file, the
\* parameter code in lower case.
HoldsFirstFive(r) ==
  /\ Len(collected.rows[r]) = 5
  /\ \A k \in {1, 2, 4, 5} :
       HoldsField(collected.rows[r][k],
                  IF k <= Len(RawRows[r]) THEN RawRows[r][k] ELSE <<>>)
  /\ collected.rows[r][3].kind = "str"
  /\ SameLetters(collected.rows[r][3].text, RawRows[r][3])
  /\ \A i \in 1..Len(collected.rows[r][3].text) :
       collected.rows[r][3].text[i] \notin UpperLetters

\* C5: every value of the parameter column of a returned frame is lower
\* case, and is the code of the same row of the file but for the case.
C5_ParameterLowercase ==
  collected.status = "ok" =>
    /\ collected.columns[3] = "parameter"
    /\ Len(collected.rows) = Len(RawRows)
    /\ \A r \in 1..Len(collected.rows) :
         /\ SameLetters(collected.rows[r][3].text, RawRows[r][3])
         /\ \A i \in 1..Len(collected.rows[r][3].text) :
              collected.rows[r][3].text[i] \notin UpperLetters

\* The file with the codes "TMAX", "prcp" and "TmIn" has been collected.
C5_Witness ==
  /\ collected.status = "ok"
  /\ collected.payload = "Good8"
  /\ RawRows[3][3] = <<"T","m","I","n">>
  /\ collected.rows[1][3] = str_cell(<<"t","m","a","x">>)
  /\ collected.rows[2][3] = str_cell(<<"p","r","c","p">>)
  /\ collected.rows[3][3] = str_cell(<<"t","m","i","n">>)

\* Every row of the collected file has n fields.
UniformFile(n) ==
  /\ FileTable[collected.payload].gzip
  /\ RawRows # <<>>
  /\ \A r \in 1..Len(RawRows) : Len(RawRows[r]) = n

\* C6 as stated: of a file with five or more columns the first five are
\* returned as station_id, date, parameter, value, quality, whatever the
\* number of trailing columns.
C6_FirstFiveOfAnyWidth ==
  (Collected /\ \E n \in 5..9 : UniformFile(n)) =>
    /\ collected.status = "ok"
    /\ collected.columns = value_columns
    /\ \A r \in 1..Len(RawRows) : HoldsFirstFive(r)

\* Some row of the collected file has an element code that is a string.
HasCodes ==
  \E r \in 1..Len(RawRows) :
    /\ Len(RawRows[r]) >= 3
    /\ csv_cell(RawRows[r][3]) # NaN
    /\ ~is_integer(RawRows[r][3])

\* C6, amended: of a file with exactly eight columns, the third holding
\* element codes, the first five are returned as station_id, date,
\* parameter, value, quality and the three trailing columns are discarded;
\* a file with five or more columns but not eight fails with ValueError and
\* returns no frame, and so does, with AttributeError, a file of eight
\* columns without an element code.
C6_FirstFiveOfEight ==
  /\ (Collected /\ UniformFile(8) /\ HasCodes) =>
       /\ collected.status = "ok"
       /\ collected.columns = value_columns
       /\ Len(collected.rows) = Len(RawRows)
       /\ \A r \in 1..Len(RawRows) : HoldsFirstFive(r)
  /\ (Collected /\ \E n \in {5, 6, 7, 9} : UniformFile(n)) =>
       /\ collected.status = "ValueError"
       /\ collected.columns = <<>>
       /\ collected.rows = <<>>
  /\ (Collected /\ UniformFile(8) /\ ~HasCodes) =>
       /\ collected.status = "AttributeError"
       /\ collected.rows = <<>>

\* The file of eight columns has been collected, its flags column included.
C6_Witness ==
  /\ collected.status = "ok"
  /\ collected.payload = "Good8"
  /\ UniformFile(8)
  /\ collected.rows[2] =
       <<str_cell(<<"G","M","E","0","0","1","1","1","4","6","4">>),
         num_cell(19310101), str_cell(<<"p","r","c","p">>), num_cell(5),
         str_cell(<<"T">>)>>
  /\ collected.rows[1][5] = nan_cell

\* The collected file has not eight columns, or cannot be read at all.
WrongColumnCount ==
  \/ ~FileTable[collected.payload].gzip
  \/ RawRows = <<>>
  \/ Len(RawRows[1]) # 8
  \/ \E r \in 1..Len(RawRows) : Len(RawRows[r]) > Len(RawRows[1])

\* C7: a file that has not the expected eight columns makes the collector
\* fail and return no frame; a returned frame has the five names on the
\* first five columns of the file, in order.
C7_WrongColumnCountFails ==
  /\ (Collected /\ WrongColumnCount) =>
       /\ collected.status \in
            {"ValueError", "ParserError", "EmptyDataError", "BadGzipFile"}
       /\ collected.columns = <<>>
       /\ collected.rows = <<>>
  /\ collected.status = "ok" =>
       /\ ~WrongColumnCount
       /\ collected.columns = value_columns
       /\ \A r \in 1..Len(collected.rows) : HoldsFirstFive(r)

\* The file of three columns has been refused.
C7_Witness ==
  /\ collected.status = "ValueError"
  /\ collected.payload = "Three"
  /\ Len(RawRows[1]) = 3
  /\ collected.rows = <<>>

\* The frame row an output row comes from.
SourceRow(k) == output.rows[k].row

\* C12: the collector returns as many rows as the file has, in the file's
\* order, each with the station_id, date, value and quality of its row of
\* the file, only the parameter code being changed, to lower case; and the
\* rows a query without si_units puts out come from the frame in order,
\* each with the value its row of the file holds.
C12_ValuesUnchanged ==
  /\ collected.status = "ok" =>
       /\ Len(collected.rows) = Len(RawRows)
       /\ \A r \in 1..Len(RawRows) :
            /\ \A k \in {1, 2, 4, 5} :
                 HoldsField(collected.rows[r][k],
                            IF k <= Len(RawRows[r]) THEN RawRows[r][k] ELSE <<>>)
            /\ SameLetters(collected.rows[r][3].text, RawRows[r][3])
  /\ (output.status = "ok" /\ ~output.si_units) =>
       /\ \A k \in 1..Len(output.rows) :
            /\ SourceRow(k) \in 1..Len(RawRows)
            /\ k > 1 => SourceRow(k - 1) < SourceRow(k)
            /\ is_integer(RawRows[SourceRow(k)][4]) =>
                 /\ output.rows[k].value.kind = "num"
                 /\ output.rows[k].value.den = 1
                 /\ output.rows[k].value.num = to_number(RawRows[SourceRow(k)][4])

\* A query without si_units has put out the precipitation row of the file
\* of eight columns: the value 5 and the flag "T" of the second row, whose
\* code "prcp" and those of the other rows, "TMAX" and "TmIn", the collector
\* has in lower case.
C12_Witness ==
  /\ output.status = "ok"
  /\ ~output.si_units
  /\ collected.payload = "Good8"
  /\ Len(output.rows) = 1
  /\ output.rows[1].row = 2
  /\ output.rows[1].value = [kind |-> "num", num |-> 5, den |-> 1]
  /\ output.rows[1].quality = str_cell(<<"T">>)
  /\ collected.rows[1][3] = str_cell(<<"t","m","a","x">>)
  /\ collected.rows[1][4] = num_cell(-13)

\* A step that is a collection.
CollectStep == collected' # collected \/ payload_cache' # payload_cache

\* C10: a collection of a station whose url was stored less than five
\* minutes before returns the stored bytes without a download and leaves the
\* cache as it is; one that finds no entry, or an entry older than five
\* minutes, makes exactly one download and, unless that fails, stores its
\* result under the url with the time, leaving the other entries alone. The
\* bytes are those of the station asked for, whatever parameter is asked.
C10_CacheWindow ==
  [][CollectStep =>
       LET s == collected'.station_id
           u == station_url(s)
           e == payload_cache[u]
       IN  /\ (e.status = "cached" /\ now - e.stored_at < FIVE_MINUTES) =>
                /\ collected'.downloads = 0
                /\ collected'.payload = e.payload
                /\ payload_cache' = payload_cache
           /\ (e.status = "none" \/ now - e.stored_at > FIVE_MINUTES) =>
                /\ collected'.downloads = 1
                /\ collected'.status # "HTTPError" =>
                     payload_cache'[u] =
                       [status |-> "cached", payload |-> collected'.payload,
                        stored_at |-> now]
                /\ \A v \in Urls \ {u} : payload_cache'[v] = payload_cache[v]
           /\ collected'.status # "HTTPError" =>
                collected'.payload \in StationFiles(s)]_vars

\* A collection has been served from an entry stored four minutes before.
C10_Witness ==
  /\ collected.status = "ok"
  /\ collected.station_id = "USW00094728"
  /\ collected.downloads = 0
  /\ payload_cache[station_url("USW00094728")].stored_at = now - 4
  /\ payload_cache[station_url("USW00094728")].payload = collected.payload

(***************************************************************************)
(* Properties of a request with a date range                               *)
(***************************************************************************)
\* The request was given a start date after its end date.
Inverted ==
  /\ request.start_date # None
  /\ request.end_date # None
  /\ request.start_date > request.end_date

\* C11: a request constructed with a start date after its end date has
\* failed with a validation error, and a session whose request failed so
\* has requested nothing from any server: no listing was fetched or cached,
\* no station file was downloaded or stored; nor is anything requested
\* before the request is constructed.
C11_InvertedRangeFailsOffline ==
  /\ (Built /\ Inverted) => request.status = "ValidationError"
  /\ request.status \in {"none", "ValidationError"} =>
       /\ network = {}
       /\ stations = NoStations
       /\ listing_cache = NoListing
       /\ collected = NoCollection
       /\ \A u \in Urls : payload_cache[u] = NoEntry

\* A request from day 2 to day 1 has been refused.
C11_Witness ==
  /\ request.status = "ValidationError"
  /\ request.start_date = 2
  /\ request.end_date = 1
  /\ network = {}

(***************************************************************************)
(* Repeated resolution of the station listing                              *)
(***************************************************************************)
\* C15: while the listing is cached, what the last call of _all returned is
\* the five-column table of the whole cached listing, the one its first
\* call returned: the stream the cache hands out is read from its beginning.
C15_ListingRepeatable ==
  listing_cache.status = "cached" =>
    /\ stations = listing_frame(listing_cache.content, 0)
    /\ listing_served # <<>> =>
         /\ stations.status = "ok"
         /\ stations.columns = listing_columns
         /\ Len(stations.rows) = Len(listing_served)

(***************************************************************************)
(* Properties of read_in_chunks                                            *)
(***************************************************************************)
\* The generator has made its first read.
Started == reader.start # -1

\* The bytes yielded so far, in order.
Yielded == join(reader.chunks, <<>>)

\* What was left of the file at the generator's first read.
Remaining == Len(file_object.content) - reader.start

\* C13: the chunks yielded so far, put together in order, are the content
\* from the position of the first read up to where the file now stands, and
\* once the generator is exhausted up to the end of the file; every chunk is
\* non-empty and at most chunk_size long, and every chunk but the last is
\* exactly chunk_size long, the last one being shorter only at the end of
\* the file.
C13_ChunksAreTheContent ==
  Started =>
    /\ Yielded = SubSeq(file_object.content, reader.start + 1, file_object.pos)
    /\ reader.status = "exhausted" => file_object.pos = Len(file_object.content)
    /\ \A k \in 1..Len(reader.chunks) :
         /\ Len(reader.chunks[k]) >= 1
         /\ Len(reader.chunks[k]) <= reader.chunk_size
         /\ k < Len(reader.chunks) => Len(reader.chunks[k]) = reader.chunk_size
    /\ (reader.chunks # <<>>
        /\ Len(reader.chunks[Len(reader.chunks)]) < reader.chunk_size) =>
         file_object.pos = Len(file_object.content)

\* A three-byte file has been read to its end in chunks of two, from its
\* beginning: a full chunk, then a shorter last one.
C13_Witness ==
  /\ reader.status = "exhausted"
  /\ reader.chunk_size = 2
  /\ reader.start = 0
  /\ Len(file_object.content) = 3
  /\ Len(reader.chunks) = 2
  /\ Len(reader.chunks[2]) = 1

\* ceil(a / b)
ceil_div(a, b) == (a + b - 1) \div b

\* An exhausted generator has yielded ceil(remaining / chunk_size) chunks,
\* and a generator made over a file object that an earlier generator read to
\* its end yields nothing.
ChunkCount ==
  /\ (reader.status = "exhausted") =>
       Len(reader.chunks) = ceil_div(Remaining, reader.chunk_size)
  /\ reader.after_drained => reader.chunks = <<>>

\* C14: a generator that is iterated gets exhausted, having yielded exactly
\* ceil(remaining_length / chunk_size) chunks; and a generator made over a
\* file object that was read to its end and not reopened yields no chunk.
C14_TerminatesNotRestartable ==
  /\ []ChunkCount
  /\ (Live ~> reader.status = "exhausted")

\* A second generator over a non-empty file that the first one read to its
\* end has been exhausted without a chunk.
C14_Witness ==
  /\ reader.status = "exhausted"
  /\ reader.after_drained
  /\ reader.round >= 2
  /\ file_object.content # <<>>
  /\ reader.chunks = <<>>

====
